---- MODULE Spec2Model ----
(***************************************************************************)
(* codecks-mcp: the HTTP transport (api.ts), the Codecks client            *)
(* (client.ts), the input validators (security.ts), the response contract  *)
(* (contract.ts) and the MCP tool handlers (tools/*.ts).                   *)
(*                                                                         *)
(* SpecHttp runs one httpRequest call against every upstream behaviour.    *)
(* Spec runs tool invocations, each of which drives the transport through  *)
(* sessionRequest / reportRequest.                                         *)
(***************************************************************************)
EXTENDS Integers, Sequences, FiniteSets, TLC

VARIABLES
    cfg,        \* config (config.ts): read once at start, never written
    net,        \* which upstream behaviours are enumerated: "full" | "brief"
    req,        \* the httpRequest call in progress (api.ts)
    inv,        \* the tool invocation in progress: tool name and arguments
    pc,         \* position of the tool handler / client method
    loc,        \* locals of the running client method
    calls,      \* upstream requests issued by the current invocation, in order
    out         \* last value handed back to the MCP caller

vars == <<cfg, net, req, inv, pc, loc, calls, out>>

-----------------------------------------------------------------------------
(* Bounds *)

MaxRetries == 2      \* largest CODECKS_HTTP_MAX_RETRIES explored by SpecHttp
MaxIds == 3          \* longest card_ids list
MaxCards == 2        \* most cards in one upstream cards response

-----------------------------------------------------------------------------
(* Small helpers *)

Max(a, b) == IF a >= b THEN a ELSE b

RECURSIVE Pow2(_)
Pow2(n) == IF n <= 0 THEN 1 ELSE 2 * Pow2(n - 1)

-----------------------------------------------------------------------------
(* Errors (errors.ts).  SetupError extends CliError; HTTPError and the     *)
(* runtime's own errors ("Error") do not.                                  *)

NoErr == [cls |-> "none", code |-> 0, msg |-> ""]

CliError(m) == [cls |-> "CliError", code |-> 0, msg |-> m]
SetupError(m) == [cls |-> "SetupError", code |-> 0, msg |-> m]
HTTPError(c) == [cls |-> "HTTPError", code |-> c, msg |-> "HTTP"]
\* new CliError(`[ERROR] HTTP ${err.code}: ${err.reason}`)
CliErrorHttp(c) == [cls |-> "CliError", code |-> c, msg |-> "[ERROR] HTTP"]

InstanceOfSetupError(e) == e.cls = "SetupError"
InstanceOfCliError(e) == e.cls \in {"CliError", "SetupError"}
InstanceOfHTTPError(e) == e.cls = "HTTPError"

-----------------------------------------------------------------------------
(* Upstream responses.  One attempt of fetch() ends in an HTTP response, a *)
(* timeout (AbortError) or a connection error.                             *)

RetryableWith500 == {429, 500, 502, 503, 504}

\* const RETRYABLE_HTTP_CODES = new Set([429, 502, 503, 504])
RETRYABLE_HTTP_CODES == {429, 502, 503, 504}
OtherErrorCodes == {400, 401, 403, 404, 500}

\* Retry-After header values: absent, an HTTP date, "0", a positive number.
RetryAfterHeaders == {"absent", "date", "0", "5"}

\* A parsed JSON object of the upstream: the entities under each key (an
\* absent key and an empty map both hold no entity), the account ("" when the
\* key is absent) and the id of a created report ("" when absent).
NoBody ==
    [card |-> <<>>, deck |-> <<>>, queueEntry |-> <<>>, account |-> "",
     id |-> ""]

Resp(kind, status, hdr, size, parse, body) ==
    [kind |-> kind, status |-> status, hdr |-> hdr, size |-> size,
     parse |-> parse, body |-> body]

ErrorResponses(codes, hdrs) ==
    { Resp("http", s, h, "small", "invalid", NoBody) : s \in codes, h \in hdrs }

Timeout == Resp("timeout", 0, "absent", "small", "invalid", NoBody)
ConnError == Resp("connerr", 0, "absent", "small", "invalid", NoBody)

\* 2xx bodies: over the size ceiling or not, and valid JSON object, valid JSON
\* that is no object (array, null, number), or no JSON at all.
OkResponses(bodies) ==
    { Resp("http", 200, "absent", "small", "obj", b) : b \in bodies }
    \cup { Resp("http", 200, "absent", sz, p, NoBody) :
             sz \in {"small", "large"}, p \in {"nonobj", "invalid"} }
    \cup { Resp("http", 200, "absent", "large", "obj", NoBody) }

FullResponses ==
    ErrorResponses(OtherErrorCodes, {"absent"})
    \cup ErrorResponses(RETRYABLE_HTTP_CODES, RetryAfterHeaders)
    \cup {Timeout, ConnError}
    \cup OkResponses({NoBody})

\* A card of an upstream response: childCardInfo is absent ("none"), has
\* count 0 ("zero") or a positive count ("some").
ChildInfos == {"none", "zero", "some"}
\* A card title: which text it is and whether it holds a directive pattern.
Title(name, directive) == [name |-> name, directive |-> directive]

CardLists ==
    UNION { { [i \in 1 .. n |-> [id |-> i, title |-> Title(i, FALSE),
                                 childCardInfo |-> f[i]]] :
                f \in [1 .. n -> ChildInfos] } : n \in 0 .. MaxCards }

DeckLists == { <<>>, <<[id |-> "deck-1", title |-> "Features"]>> }

QueueLists == { <<>>, <<[card |-> 1, sortIndex |-> 1, user |-> "u1"]>> }

\* The 2xx JSON objects the upstream may answer to a request on `path`.
Bodies(path) ==
    IF path = "cards" THEN { [NoBody EXCEPT !.card = cs] : cs \in CardLists }
    ELSE IF path = "decks" THEN { [NoBody EXCEPT !.deck = ds] : ds \in DeckLists }
    ELSE IF path = "queueEntries"
    THEN { [NoBody EXCEPT !.queueEntry = qs] : qs \in QueueLists }
    ELSE IF path = "account"
    THEN { NoBody, [NoBody EXCEPT !.account = "acct"] }
    ELSE IF path = "report"
    THEN { NoBody, [NoBody EXCEPT !.id = "new-card"] }
    ELSE { NoBody }

BriefCodes == {401, 403, 429, 500, 503}

BriefResponses(path) ==
    ErrorResponses(BriefCodes, {"absent"})
    \cup {Timeout}
    \cup { Resp("http", 200, "absent", "small", "obj", b) : b \in Bodies(path) }
    \cup { Resp("http", 200, "absent", "small", p, NoBody) :
             p \in {"nonobj", "invalid"} }

\* The answers to the card creations of a scaffold: the created card, a 401
\* and a 403 (which reportRequest tells apart) and a 500.
ScaffoldResponses ==
    ErrorResponses({401, 403, 500}, {"absent"})
    \cup { Resp("http", 200, "absent", "small", "obj",
                [NoBody EXCEPT !.id = "new-card"]) }

-----------------------------------------------------------------------------
(* httpRequest (api.ts)                                                    *)

NoValue == [t |-> "none", v |-> NoBody]
Ok(v) == [ok |-> TRUE, value |-> v, err |-> NoErr]
Fail(e) == [ok |-> FALSE, value |-> NoValue, err |-> e]
NoResult == [ok |-> FALSE, value |-> NoValue, err |-> NoErr]

IdleReq ==
    [phase |-> "idle", kind |-> "none", path |-> "", idempotent |-> FALSE,
     attempt |-> 0, maxAttempts |-> 0, delay |-> 0, events |-> <<>>,
     result |-> NoResult]

maxAttemptsMutant(idempotent) ==
    2 + Max(0, IF idempotent THEN cfg.httpMaxRetries ELSE 0)

\* const maxAttempts = 1 + Math.max(0, idempotent ? config.httpMaxRetries : 0)
maxAttempts(idempotent) ==
    1 + Max(0, IF idempotent THEN cfg.httpMaxRetries ELSE 0)

NewReq(kind, path, idempotent) ==
    [phase |-> "ready", kind |-> kind, path |-> path,
     idempotent |-> idempotent, attempt |-> 0,
     maxAttempts |-> maxAttempts(idempotent), delay |-> 0, events |-> <<>>,
     result |-> NoResult]

\* parseInt(header ?? "", 10): NaN unless the text starts with digits
parseInt(h) ==
    IF h = "0" THEN [nan |-> FALSE, n |-> 0]
    ELSE IF h = "5" THEN [nan |-> FALSE, n |-> 5]
    ELSE [nan |-> TRUE, n |-> 0]

backoffMutant(attempt) == cfg.httpRetryBase * 2 * attempt

\* config.httpRetryBase * 2 ** attempt
backoff(attempt) == cfg.httpRetryBase * Pow2(attempt)

\* parseInt(...) || backoff : a NaN or 0 on the left yields the right side
retryAfter(hdr, attempt) ==
    LET p == parseInt(hdr)
    IN IF ~p.nan /\ p.n # 0 THEN p.n ELSE backoff(attempt)

\* const canRetry = idempotent && attempt < maxAttempts - 1 && retryable
canRetry(r, status) ==
    r.idempotent /\ r.attempt < r.maxAttempts - 1
    /\ status \in RETRYABLE_HTTP_CODES

\* if (idempotent && attempt < maxAttempts - 1)   (timeout and connection)
canRetryNetwork(r) == r.idempotent /\ r.attempt < r.maxAttempts - 1

FetchEvent(o) == [e |-> "fetch", o |-> o, d |-> 0]
SleepEvent(d) == [e |-> "sleep", o |-> Timeout, d |-> d]

rethrownHttpOnly(err) == InstanceOfHTTPError(err)

\* if (err instanceof HTTPError || err instanceof CliError) throw err;
rethrown(err) == InstanceOfHTTPError(err) \/ InstanceOfCliError(err)

\* The body of one loop iteration after fetch() settled with o: the request
\* either goes to sleep before the next attempt or ends with a value / throw.
\* An error thrown inside the try block reaches the catch block, which
\* rethrows it or treats it as a connection failure.
AfterFetch(r, o) ==
    LET r1 == [r EXCEPT !.events = Append(@, FetchEvent(o))]
        end(res) == [r1 EXCEPT !.phase = "done", !.result = res]
        nap(d) == [r1 EXCEPT !.phase = "sleeping", !.delay = d]
        network == IF canRetryNetwork(r)
                   THEN nap(backoff(r.attempt))
                   ELSE end(Fail(CliError("Connection failed")))
        caught(err) == IF rethrown(err) THEN end(Fail(err)) ELSE network
    IN  IF o.kind = "http" /\ o.status # 200
        THEN IF canRetry(r, o.status)
             THEN nap(retryAfter(o.hdr, r.attempt))
             ELSE caught(HTTPError(o.status))
        ELSE IF o.kind = "http"
        THEN IF o.size = "large"
             THEN caught(CliError("Response too large"))
             ELSE IF o.parse = "invalid"
             THEN caught(CliError("not valid JSON"))
             ELSE end(Ok([t |-> o.parse, v |-> o.body]))
        ELSE IF o.kind = "timeout"
        THEN IF canRetryNetwork(r)
             THEN nap(backoff(r.attempt))
             ELSE end(Fail(CliError("Request timed out")))
        ELSE network

\* The responses the upstream may give to the request in progress.  SpecHttp
\* enumerates every response class; Spec enumerates, per request, the bodies
\* that fit what was asked and a representative of each error class that the
\* callers of httpRequest tell apart.
Upstream ==
    IF net = "full" THEN FullResponses
    ELSE IF pc \in {"scaffoldFeature", "scaffold"} THEN ScaffoldResponses
    ELSE BriefResponses(req.path)

\* One attempt: await fetch(...) and the classification of its outcome.
HttpFetch ==
    /\ req.phase = "ready"
    /\ \E o \in Upstream : req' = AfterFetch(req, o)
    /\ UNCHANGED <<cfg, net, inv, pc, loc, calls, out>>

\* await sleep(delay * 1000); continue -- attempt++ and the loop test; when
\* the loop runs out the function throws "Request failed after all retries".
HttpSleep ==
    /\ req.phase = "sleeping"
    /\ LET r1 == [req EXCEPT !.attempt = @ + 1,
                             !.events = Append(@, SleepEvent(req.delay)),
                             !.delay = 0]
       IN req' = IF r1.attempt < r1.maxAttempts
                 THEN [r1 EXCEPT !.phase = "ready"]
                 ELSE [r1 EXCEPT !.phase = "done",
                                 !.result = Fail(CliError("Request failed after all retries"))]
    /\ UNCHANGED <<cfg, net, inv, pc, loc, calls, out>>

-----------------------------------------------------------------------------
(* Configuration (config.ts) *)

DefaultRetries == 2
RetryBases == {1, 3}

HttpConfigs ==
    [httpMaxRetries : -1 .. MaxRetries, httpRetryBase : RetryBases,
     mcpResponseMode : {"legacy"}, userId : {"u1"}, reportToken : {"tok"}]

NoInv == [tool |-> "none"]

\* SpecHttp: one httpRequest call, idempotent or not, under every
\* retry budget.
InitHttp ==
    /\ cfg \in HttpConfigs
    /\ net = "full"
    /\ \E idem \in BOOLEAN :
         req = NewReq("raw", "/", idem)
    /\ inv = NoInv
    /\ pc = "transport"
    /\ loc = <<>>
    /\ calls = <<>>
    /\ out = [t |-> "none", v |-> <<>>]

NextHttp == HttpFetch \/ HttpSleep

SpecHttp == InitHttp /\ [][NextHttp]_vars

-----------------------------------------------------------------------------
(* Authenticated request helpers (api.ts)                                  *)

\* expectObject: a parsed value that is no JSON object is a CliError
expectObject(value, operation) ==
    IF value.t = "obj" THEN Ok(value)
    ELSE Fail(CliError(<<"Unexpected response shape", operation>>))

\* sessionRequest: what the call yields once httpRequest has ended with res
sessionRequest(res) ==
    IF res.ok THEN expectObject(res.value, "session")
    ELSE IF InstanceOfHTTPError(res.err)
         THEN IF res.err.code = 401 \/ res.err.code = 403
              THEN Fail(SetupError("[TOKEN_EXPIRED]"))
              ELSE IF res.err.code = 429
              THEN Fail(CliError("[ERROR] Rate limit reached"))
              ELSE Fail(CliErrorHttp(res.err.code))
         ELSE Fail(res.err)

\* reportRequest: what the call yields once httpRequest has ended with res
reportRequest(res) ==
    IF res.ok THEN expectObject(res.value, "report")
    ELSE IF InstanceOfHTTPError(res.err) /\ res.err.code = 401
         THEN Fail(CliError("[ERROR] Report token is invalid or disabled"))
         ELSE Fail(res.err)

-----------------------------------------------------------------------------
(* JSON objects are functions from field names to values *)

Has(o, k) == k \in DOMAIN o
With(o, k, v) == [x \in DOMAIN o \cup {k} |-> IF x = k THEN v ELSE o[x]]
Without(o, ks) == [x \in DOMAIN o \ ks |-> o[x]]

\* o with k set to v when present, o as it is otherwise
Opt(o, k, v, present) == IF present THEN With(o, k, v) ELSE o

\* null
Null == [null |-> TRUE]

Obj(o) == [t |-> "obj", v |-> o]
Arr(a) == [t |-> "arr", v |-> a]
NoOut == [t |-> "none", v |-> <<>>]

\* Message texts.  String(err) is `${err.name}: ${err.message}`; err.message
\* is the bare text.
ErrString(err) ==
    [prefix |-> "", name |-> err.cls, text |-> err.msg, code |-> err.code]
ErrMessage(err) ==
    [prefix |-> "", name |-> "", text |-> err.msg, code |-> err.code]
Unexpected(err) ==
    [prefix |-> "Unexpected error: ", name |-> err.cls, text |-> err.msg,
     code |-> err.code]
\* String(undefined)
UndefinedString ==
    [prefix |-> "", name |-> "", text |-> "undefined", code |-> 0]

-----------------------------------------------------------------------------
(* Response contract (contract.ts) *)

CONTRACT_SCHEMA_VERSION == "1.0"

contractError(message, errorType) ==
    [ok |-> FALSE, schema_version |-> CONTRACT_SCHEMA_VERSION,
     type |-> errorType, error |-> message,
     error_detail |-> [type |-> errorType, message |-> message]]

ensureContractDictOverwrite(payload) ==
    LET out1 == With(payload, "schema_version", CONTRACT_SCHEMA_VERSION)
    IN  IF Has(out1, "ok") /\ out1.ok = FALSE
        THEN LET errorType == IF Has(out1, "type") THEN out1.type ELSE "error"
                 errorMessage == IF ~Has(out1, "error") THEN UndefinedString
                                 ELSE IF out1.error.name = "#number"
                                 THEN [out1.error EXCEPT !.name = ""]
                                 ELSE out1.error
                 out2 == With(out1, "error", errorMessage)
             IN IF Has(out2, "error_detail") THEN out2
                ELSE With(out2, "error_detail",
                          [type |-> errorType, message |-> errorMessage])
        ELSE IF Has(out1, "ok") THEN out1 ELSE With(out1, "ok", TRUE)

\* ensureContractDict: `??=` fills schema_version, error_detail and ok when
\* absent; a failure's error that is no string (a value whose name is
\* "#number", or undefined) is replaced by String(error).
ensureContractDict(payload) ==
    LET out1 == IF Has(payload, "schema_version") THEN payload
                ELSE With(payload, "schema_version", CONTRACT_SCHEMA_VERSION)
    IN  IF Has(out1, "ok") /\ out1.ok = FALSE
        THEN LET errorType == IF Has(out1, "type") THEN out1.type ELSE "error"
                 errorMessage == IF ~Has(out1, "error") THEN UndefinedString
                                 ELSE IF out1.error.name = "#number"
                                 THEN [out1.error EXCEPT !.name = ""]
                                 ELSE out1.error
                 out2 == With(out1, "error", errorMessage)
             IN IF Has(out2, "error_detail") THEN out2
                ELSE With(out2, "error_detail",
                          [type |-> errorType, message |-> errorMessage])
        ELSE IF Has(out1, "ok") THEN out1 ELSE With(out1, "ok", TRUE)

finalizeToolResultWrapAll(result) ==
    IF result.t = "obj"
    THEN LET normalized == ensureContractDict(result.v)
         IN IF cfg.mcpResponseMode = "envelope"
            THEN Obj([ok |-> TRUE,
                      schema_version |-> CONTRACT_SCHEMA_VERSION,
                      data |-> Without(normalized, {"ok", "schema_version"})])
            ELSE Obj(normalized)
    ELSE IF cfg.mcpResponseMode = "envelope"
         THEN Obj([ok |-> TRUE, schema_version |-> CONTRACT_SCHEMA_VERSION,
                   data |-> result.v])
         ELSE result

finalizeToolResult(result) ==
    IF result.t = "obj"
    THEN LET normalized == ensureContractDict(result.v)
         IN IF normalized.ok = FALSE THEN Obj(normalized)
            ELSE IF cfg.mcpResponseMode = "envelope"
            THEN Obj([ok |-> TRUE,
                      schema_version |-> CONTRACT_SCHEMA_VERSION,
                      data |-> Without(normalized, {"ok", "schema_version"})])
            ELSE Obj(normalized)
    ELSE IF cfg.mcpResponseMode = "envelope"
         THEN Obj([ok |-> TRUE, schema_version |-> CONTRACT_SCHEMA_VERSION,
                   data |-> result.v])
         ELSE result

handleErrorCliFirst(err) ==
    IF InstanceOfCliError(err) THEN contractError(ErrString(err), "error")
    ELSE IF InstanceOfSetupError(err) THEN contractError(ErrString(err), "setup")
    ELSE contractError(Unexpected(err), "error")

\* handleError of tools/read.ts, hand.ts, mutation.ts, comments.ts
handleError(err) ==
    IF InstanceOfSetupError(err) THEN contractError(ErrString(err), "setup")
    ELSE IF InstanceOfCliError(err) THEN contractError(ErrString(err), "error")
    ELSE contractError(Unexpected(err), "error")

-----------------------------------------------------------------------------
(* Input validation (security.ts) *)

\* An identifier is known by its length and its number of hyphens.
Uuid(name, len, hyphens) == [name |-> name, len |-> len, hyphens |-> hyphens]
\* Malformed: 8 characters without hyphens; 36 characters without hyphens.
ShortId == Uuid(-1, 8, 0)
NoHyphenId == Uuid(-2, 36, 0)
BadIds == { ShortId, NoHyphenId }
GoodId(i) == Uuid(i, 36, 4)

validateUuidLengthOnly(value) == value.len = 36

\* throws unless value.length === 36 and value holds exactly 4 hyphens
validateUuid(value) == value.len = 36 /\ value.hyphens = 4

UuidError(value, field) ==
    CliError(<<"must be a full 36-char UUID, got", field, value.name>>)

\* validateUuidList: values.map(validateUuid) throws at the first invalid
\* entry; 0 when every entry is valid
LastInvalid(values) ==
    IF \A i \in 1 .. Len(values) : validateUuid(values[i]) THEN 0
    ELSE CHOOSE i \in 1 .. Len(values) :
           /\ ~validateUuid(values[i])
           /\ \A j \in i + 1 .. Len(values) : validateUuid(values[j])

FirstInvalid(values) ==
    IF \A i \in 1 .. Len(values) : validateUuid(values[i]) THEN 0
    ELSE CHOOSE i \in 1 .. Len(values) :
           /\ ~validateUuid(values[i])
           /\ \A j \in 1 .. i - 1 : validateUuid(values[j])

\* validateUuidList: the list itself, or the error of the first invalid entry
validateUuidList(values, field) ==
    IF FirstInvalid(values) = 0 THEN Ok(values)
    ELSE Fail(UuidError(values[FirstInvalid(values)], field))

\* A text is known by its length and the number of control characters in it.
Text(name, len, ctrl) == [name |-> name, len |-> len, ctrl |-> ctrl]
NoText == Text("", 0, 0)

INPUT_LIMITS ==
    [title |-> 500, content |-> 50000, message |-> 10000,
     observation |-> 500, description |-> 50000, feedback_message |-> 1000,
     feedback_context |-> 500]

\* text.replace(CONTROL_RE, "")
cleaned(text) == [text EXCEPT !.len = text.len - text.ctrl, !.ctrl = 0]

limitOf(field) ==
    IF field \in DOMAIN INPUT_LIMITS THEN INPUT_LIMITS[field] ELSE 50000

validateInputRawLength(text, field) ==
    IF text.len > limitOf(field)
    THEN Fail(CliError(<<"exceeds maximum length", field>>))
    ELSE Ok(cleaned(text))

\* validateInput: strip the control characters, then compare with the limit
validateInput(text, field) ==
    IF cleaned(text).len > limitOf(field)
    THEN Fail(CliError(<<"exceeds maximum length", field>>))
    ELSE Ok(cleaned(text))

-----------------------------------------------------------------------------
(* Tool handlers (tools/*.ts) and client methods (client.ts)               *)

\* card_ids arguments: entry i is the i-th well-formed id or a malformed one
IdLists ==
    UNION { { [i \in 1 .. n |-> IF f[i] = 0 THEN GoodId(i)
                                 ELSE Uuid(f[i], IF f[i] = -1 THEN 8 ELSE 36, 0)] :
                f \in [1 .. n -> {0, -1, -2}] } :
            n \in 0 .. MaxIds }

TitleArgs == { NoText, Text("t", 4, 1), Text("long", 501, 0) }

\* An entry of the call log: the request and, once the caller got it back,
\* how it ended.
Call(kind, path, payload) ==
    [kind |-> kind, path |-> path, payload |-> payload, done |-> FALSE,
     ok |-> FALSE, err |-> NoErr, value |-> NoValue, status |-> 0]

\* The call log once the last request has come back to the client with r:
\* what the client got and the HTTP status of the last attempt (0: none).
Settled(r) ==
    [calls EXCEPT ![Len(calls)] =
        [@ EXCEPT !.done = TRUE, !.ok = r.ok, !.err = r.err,
                  !.value = r.value,
                  !.status = req.events[Len(req.events)].o.status]]

\* The server takes a tool call: none served yet, or the last one answered.
Idle == pc \in {"idle", "waiting"}

\* The handler has returned: JSON.stringify(finalizeToolResult(result))
Returned(result) ==
    /\ out' = finalizeToolResult(result)
    /\ pc' = "returned"
    /\ req' = IdleReq

\* The handler's catch: finalizeToolResult(handleError(err))
Thrown(err) == Returned(Obj(handleError(err)))

\* await query(...) / dispatch(...) / reportRequest(...): httpRequest starts
Issued(next, kind, path, payload, log) ==
    /\ req' = NewReq(kind, path, kind = "query")
    /\ calls' = Append(log, Call(kind, path, payload))
    /\ pc' = next
    /\ out' = NoOut

Invoked(tool, args) == inv' = [tool |-> tool, args |-> args]

\* ---- update_cards / CodecksClient.updateCards ----

\* if (options.<field>): the option was supplied and is not ""
supplied(options, field) ==
    Has(options, field) /\ options[field] # (IF field = "title" THEN NoText ELSE "")

\* options.x === "null" ? null : options.x
nullable(value) == IF value = "null" THEN Null ELSE [string |-> value]

\* The payload of one cards/update dispatch: the card id, then status,
\* priority, effort, title, content, milestoneId and assigneeId from the
\* options that are set; deck, hero, tags and doc are not read.
updatePayload(cardId, args) ==
    LET p0 == [id |-> cardId]
        p1 == Opt(p0, "status",
                  IF supplied(args, "status") THEN args.status ELSE "",
                  supplied(args, "status"))
        p2 == Opt(p1, "priority",
                  IF supplied(args, "priority") THEN nullable(args.priority)
                  ELSE Null,
                  supplied(args, "priority"))
        p3 == Opt(p2, "effort",
                  IF supplied(args, "effort") /\ args.effort # "null"
                  THEN parseInt(args.effort) ELSE Null,
                  supplied(args, "effort"))
        p4 == Opt(p3, "title",
                  IF supplied(args, "title") THEN args.title ELSE NoText,
                  supplied(args, "title"))
        p5 == Opt(p4, "content",
                  IF Has(args, "content") THEN args.content ELSE "",
                  Has(args, "content"))
        p6 == Opt(p5, "milestoneId",
                  IF supplied(args, "milestone") THEN nullable(args.milestone)
                  ELSE Null,
                  supplied(args, "milestone"))
    IN Opt(p6, "assigneeId",
           IF supplied(args, "owner") THEN nullable(args.owner) ELSE Null,
           supplied(args, "owner"))

updateCardsResult(l) ==
    Obj([ok |-> l.updated > 0, updated |-> l.updated, results |-> l.results])

UpdateCardsStart ==
    /\ Idle
    /\ \E ids \in IdLists, title \in TitleArgs, coe \in BOOLEAN :
         LET args == [card_ids |-> ids, title |-> title,
                      continue_on_error |-> coe]
             bad == FirstInvalid(ids)
             l0 == [i |-> 1, updated |-> 0, results |-> <<>>]
         IN /\ Invoked("update_cards", args)
            /\ loc' = l0
            /\ IF bad # 0
               THEN Thrown(UuidError(ids[bad], "card_ids")) /\ calls' = <<>>
               ELSE IF title # NoText /\ ~validateInput(title, "title").ok
               THEN Thrown(validateInput(title, "title").err) /\ calls' = <<>>
               ELSE IF ids = <<>>
               THEN Returned(updateCardsResult(l0)) /\ calls' = <<>>
               ELSE Issued("updateCards", "dispatch", "cards/update",
                           updatePayload(ids[1], args), <<>>)
    /\ UNCHANGED <<cfg, net>>

updateCardsStopMutant(ok, coe) == FALSE

\* if (!options.continueOnError) break;   (in the catch of one dispatch)
updateCardsStop(ok, coe) == ~ok /\ ~coe

UpdateCardsNext ==
    /\ pc = "updateCards"
    /\ req.phase = "done"
    /\ LET args == inv.args
           ids == args.card_ids
           r == sessionRequest(req.result)
           entry == IF r.ok
                    THEN [card_id |-> ids[loc.i], ok |-> TRUE,
                          result |-> r.value.v]
                    ELSE [card_id |-> ids[loc.i], ok |-> FALSE,
                          error |-> ErrMessage(r.err)]
           l1 == [i |-> loc.i + 1,
                  updated |-> loc.updated + (IF r.ok THEN 1 ELSE 0),
                  results |-> Append(loc.results, entry)]
       IN /\ loc' = l1
          /\ IF updateCardsStop(r.ok, args.continue_on_error)
                \/ loc.i = Len(ids)
             THEN Returned(updateCardsResult(l1)) /\ calls' = Settled(r)
             ELSE Issued("updateCards", "dispatch", "cards/update",
                         updatePayload(ids[loc.i + 1], args), Settled(r))
    /\ UNCHANGED <<cfg, net, inv>>

\* ---- delete_card / CodecksClient.deleteCard ----

CardIdArgs == {GoodId(1)} \cup BadIds

DeleteCardStart ==
    /\ Idle
    /\ \E id \in CardIdArgs :
         /\ Invoked("delete_card", [card_id |-> id])
         /\ loc' = <<>>
         /\ IF ~validateUuid(id)
            THEN Thrown(UuidError(id, "card_id")) /\ calls' = <<>>
            ELSE Issued("deleteCard:archive", "dispatch", "cards/update",
                        [id |-> id, visibility |-> "archived"], <<>>)
    /\ UNCHANGED <<cfg, net>>

DeleteCardArchivedSwallow ==
    /\ pc = "deleteCard:archive"
    /\ req.phase = "done"
    /\ Issued("deleteCard:remove", "dispatch", "cards/bulkUpdate",
              [ids |-> <<inv.args.card_id>>, visibility |-> "deleted",
               deleteFiles |-> FALSE], Settled(sessionRequest(req.result)))
    /\ UNCHANGED <<cfg, net, inv, loc>>

\* await dispatch("cards/update", {id, visibility: "archived"}) has settled
DeleteCardArchived ==
    /\ pc = "deleteCard:archive"
    /\ req.phase = "done"
    /\ LET r == sessionRequest(req.result)
       IN IF ~r.ok
          THEN Thrown(r.err) /\ calls' = Settled(r)
          ELSE Issued("deleteCard:remove", "dispatch", "cards/bulkUpdate",
                      [ids |-> <<inv.args.card_id>>, visibility |-> "deleted",
                       deleteFiles |-> FALSE], Settled(r))
    /\ UNCHANGED <<cfg, net, inv, loc>>

DeleteCardRemoved ==
    /\ pc = "deleteCard:remove"
    /\ req.phase = "done"
    /\ LET r == sessionRequest(req.result)
       IN /\ calls' = Settled(r)
          /\ IF ~r.ok
             THEN Thrown(r.err)
             ELSE Returned(Obj([ok |-> TRUE, card_id |-> inv.args.card_id,
                                result |-> r.value.v]))
    /\ UNCHANGED <<cfg, net, inv, loc>>

\* ---- helpers of client.ts and security.ts used by the read tools ----

\* queryKey.replace(/s$/, "").replace(/ie$/, "y")
singularKey(queryKey) ==
    IF queryKey = "queueEntries" THEN "queueEntry"
    ELSE IF queryKey = "activities" THEN "activity"
    ELSE IF queryKey = "decks" THEN "deck"
    ELSE IF queryKey = "projects" THEN "project"
    ELSE IF queryKey = "milestones" THEN "milestone"
    ELSE IF queryKey = "masterTags" THEN "masterTag"
    ELSE IF queryKey = "cards" THEN "card"
    ELSE queryKey

\* extractEntityMap: the entities of the map under result[key]; [] when the
\* key is absent or holds no map (account and id hold strings)
extractEntityMap(result, key) ==
    IF Has(result, key) /\ key \notin {"account", "id"}
    THEN result[key]
    ELSE <<>>

\* the truthiness of an array: [] is truthy as well
truthy(list) == TRUE

\* extractList: extractEntityMap(singular) || extractEntityMap(plural) || []
extractList(result, queryKey) ==
    LET first == extractEntityMap(result, singularKey(queryKey))
    IN IF truthy(first) THEN first ELSE extractEntityMap(result, queryKey)

extractCards(result) == extractEntityMap(result, "card")

SLIM_DROP ==
    {"deckId", "deck_id", "milestoneId", "milestone_id", "assignee",
     "projectId", "project_id", "childCardInfo", "child_card_info",
     "masterTags"}

slimCard(card) == Without(card, SLIM_DROP)

\* typeof v === "string"
isString(v) == v # Null

RECURSIVE plainText(_)
\* the text between the markers of a tagged text, the text itself otherwise
plainText(text) == IF Has(text, "tag") THEN plainText(text.text) ELSE text

\* checkInjection: the patterns found in a text of ten characters or more (a
\* text holding a directive is that long); markers do not hide a directive
checkInjection(text) ==
    IF plainText(text).directive THEN {"override directive"} ELSE {}

\* tagUserText: null for null, the text between markers otherwise
tagUserText(text) ==
    IF text = Null THEN Null ELSE [tag |-> "[USER_DATA]", text |-> text]

USER_TEXT_FIELDS ==
    {"title", "content", "deck_name", "owner_name", "milestone_name"}

\* the findings of one text as "label: description" entries
findings(label, text) == { <<label, d>> : d \in checkInjection(text) }

\* sub_cards.map: the title of a sub-card is tagged when it is a string
tagSubCard(sc) ==
    IF Has(sc, "title") /\ isString(sc.title)
    THEN [sc EXCEPT !.title = tagUserText(@)] ELSE sc

\* messages.map: the content of a message is tagged when it is a string
tagMessage(msg) ==
    IF Has(msg, "content") /\ isString(msg.content)
    THEN [msg EXCEPT !.content = tagUserText(@)] ELSE msg

\* conversations.map: every message of a conversation
tagConversation(conv) ==
    IF Has(conv, "messages")
    THEN [conv EXCEPT !.messages =
             [i \in 1 .. Len(@) |-> tagMessage(@[i])]]
    ELSE conv

\* sanitizeCard: the user-text fields, the sub_cards and the conversations
\* of a card are tagged; _safety_warnings is added when there are findings
sanitizeCard(card) ==
    LET fields == { f \in USER_TEXT_FIELDS \cap DOMAIN card :
                      isString(card[f]) }
        subs == IF Has(card, "sub_cards") THEN card.sub_cards ELSE <<>>
        convs == IF Has(card, "conversations") THEN card.conversations
                 ELSE <<>>
        warnings ==
            UNION { findings(f, card[f]) : f \in fields }
            \cup UNION { findings("sub_card.title", subs[i].title) :
                           i \in { j \in 1 .. Len(subs) :
                                     Has(subs[j], "title")
                                     /\ isString(subs[j].title) } }
            \cup UNION { UNION { findings("conversation.message",
                                          convs[i].messages[k].content) :
                                   k \in { m \in 1 .. Len(convs[i].messages) :
                                       Has(convs[i].messages[m], "content")
                                       /\ isString(
                                            convs[i].messages[m].content) } } :
                           i \in { j \in 1 .. Len(convs) :
                                     Has(convs[j], "messages") } }
        out1 == [k \in DOMAIN card |->
                    IF k \in fields THEN tagUserText(card[k])
                    ELSE IF k = "sub_cards"
                    THEN [i \in 1 .. Len(subs) |-> tagSubCard(subs[i])]
                    ELSE IF k = "conversations"
                    THEN [i \in 1 .. Len(convs) |-> tagConversation(convs[i])]
                    ELSE card[k]]
    IN IF warnings # {} THEN With(out1, "_safety_warnings", warnings)
       ELSE out1

\* cards.map((c) => sanitizeCard(slimCard(c)))
SlimSanitized(cards) ==
    [i \in 1 .. Len(cards) |-> sanitizeCard(slimCard(cards[i]))]

NoArgs == [none |-> TRUE]

\* ---- get_account / CodecksClient.getAccount ----

GetAccountStart ==
    /\ Idle
    /\ Invoked("get_account", NoArgs)
    /\ loc' = <<>>
    /\ Issued("getAccount", "query", "account", NoArgs, <<>>)
    /\ UNCHANGED <<cfg, net>>

GetAccountDone ==
    /\ pc = "getAccount"
    /\ req.phase = "done"
    /\ LET r == sessionRequest(req.result)
       IN /\ calls' = Settled(r)
          /\ IF ~r.ok THEN Thrown(r.err)
             ELSE IF r.value.v.account = ""
             THEN Thrown(SetupError("[TOKEN_EXPIRED] Could not fetch account."))
             ELSE Returned(Obj([account |-> r.value.v.account]))
    /\ UNCHANGED <<cfg, net, inv, loc>>

\* ---- list_hand / CodecksClient.listHand ----

ListHandStart ==
    /\ Idle
    /\ Invoked("list_hand", NoArgs)
    /\ loc' = <<>>
    /\ Issued("listHand", "query", "queueEntries", NoArgs, <<>>)
    /\ UNCHANGED <<cfg, net>>

ListHandDone ==
    /\ pc = "listHand"
    /\ req.phase = "done"
    /\ LET r == sessionRequest(req.result)
       IN /\ calls' = Settled(r)
          /\ IF ~r.ok THEN Thrown(r.err)
             ELSE Returned(Arr(SlimSanitized(
                              extractList(r.value.v, "queueEntries"))))
    /\ UNCHANGED <<cfg, net, inv, loc>>

\* ---- add_to_hand / CodecksClient.addToHand ----

\* card_ids of the hand tools: the lists of IdLists, and one well-formed id
\* given twice
HandIdLists == IdLists \cup { <<GoodId(1), GoodId(1)>> }

AddToHandStart ==
    /\ Idle
    /\ \E ids \in HandIdLists :
         LET bad == FirstInvalid(ids)
         IN /\ Invoked("add_to_hand", [card_ids |-> ids])
            /\ loc' = <<>>
            /\ IF bad # 0
               THEN Thrown(UuidError(ids[bad], "card_ids")) /\ calls' = <<>>
               ELSE IF cfg.userId = ""
               THEN Thrown(CliError("[ERROR] CODECKS_USER_ID not set. Required for hand operations."))
                    /\ calls' = <<>>
               ELSE Issued("addToHand", "dispatch", "handQueue/setCardOrders",
                           [userId |-> cfg.userId, cardIds |-> ids,
                            draggedCardIds |-> ids], <<>>)
    /\ UNCHANGED <<cfg, net>>

AddToHandDone ==
    /\ pc = "addToHand"
    /\ req.phase = "done"
    /\ LET r == sessionRequest(req.result)
       IN /\ calls' = Settled(r)
          /\ IF ~r.ok THEN Thrown(r.err)
             ELSE Returned(Obj([ok |-> TRUE,
                                added |-> Len(inv.args.card_ids),
                                result |-> r.value.v]))
    /\ UNCHANGED <<cfg, net, inv, loc>>

\* ---- remove_from_hand / CodecksClient.removeFromHand ----

RemoveFromHandStart ==
    /\ Idle
    /\ \E ids \in HandIdLists :
         LET bad == FirstInvalid(ids)
         IN /\ Invoked("remove_from_hand", [card_ids |-> ids])
            /\ loc' = <<>>
            /\ IF bad # 0
               THEN Thrown(UuidError(ids[bad], "card_ids")) /\ calls' = <<>>
               ELSE Issued("removeFromHand", "dispatch",
                           "handQueue/removeCards", [cardIds |-> ids], <<>>)
    /\ UNCHANGED <<cfg, net>>

RemoveFromHandDone ==
    /\ pc = "removeFromHand"
    /\ req.phase = "done"
    /\ LET r == sessionRequest(req.result)
       IN /\ calls' = Settled(r)
          /\ IF ~r.ok THEN Thrown(r.err)
             ELSE Returned(Obj([ok |-> TRUE,
                                removed |-> Len(inv.args.card_ids),
                                result |-> r.value.v]))
    /\ UNCHANGED <<cfg, net, inv, loc>>

\* ---- create_comment / CodecksClient.createComment ----

MessageArgs == { Text("m", 5, 1), Text("long", 10001, 0) }

CreateCommentStart ==
    /\ Idle
    /\ \E id \in CardIdArgs, message \in MessageArgs :
         LET m == validateInput(message, "message")
         IN /\ Invoked("create_comment", [card_id |-> id, message |-> message])
            /\ loc' = <<>>
            /\ IF ~validateUuid(id)
               THEN Thrown(UuidError(id, "card_id")) /\ calls' = <<>>
               ELSE IF ~m.ok
               THEN Thrown(m.err) /\ calls' = <<>>
               ELSE IF cfg.userId = ""
               THEN Thrown(CliError("[ERROR] CODECKS_USER_ID not set."))
                    /\ calls' = <<>>
               ELSE Issued("createComment", "dispatch", "resolvables/create",
                           [cardId |-> id, userId |-> cfg.userId,
                            content |-> m.value, context |-> "comment"], <<>>)
    /\ UNCHANGED <<cfg, net>>

CreateCommentDone ==
    /\ pc = "createComment"
    /\ req.phase = "done"
    /\ LET r == sessionRequest(req.result)
       IN /\ calls' = Settled(r)
          /\ IF ~r.ok THEN Thrown(r.err)
             ELSE Returned(Obj([ok |-> TRUE, card_id |-> inv.args.card_id,
                                result |-> r.value.v]))
    /\ UNCHANGED <<cfg, net, inv, loc>>

\* ---- reply_comment / CodecksClient.replyComment ----

ReplyCommentStart ==
    /\ Idle
    /\ \E message \in MessageArgs :
         LET m == validateInput(message, "message")
         IN /\ Invoked("reply_comment",
                       [thread_id |-> "thread-1", message |-> message])
            /\ loc' = <<>>
            /\ IF ~m.ok
               THEN Thrown(m.err) /\ calls' = <<>>
               ELSE IF cfg.userId = ""
               THEN Thrown(CliError("[ERROR] CODECKS_USER_ID not set."))
                    /\ calls' = <<>>
               ELSE Issued("replyComment", "dispatch", "resolvables/comment",
                           [resolvableId |-> "thread-1", content |-> m.value,
                            authorId |-> cfg.userId], <<>>)
    /\ UNCHANGED <<cfg, net>>

ReplyCommentDone ==
    /\ pc = "replyComment"
    /\ req.phase = "done"
    /\ LET r == sessionRequest(req.result)
       IN /\ calls' = Settled(r)
          /\ IF ~r.ok THEN Thrown(r.err)
             ELSE Returned(Obj([ok |-> TRUE,
                                thread_id |-> inv.args.thread_id,
                                result |-> r.value.v]))
    /\ UNCHANGED <<cfg, net, inv, loc>>

\* ---- create_card / CodecksClient.createCard ----

ContentArgs == { NoText, Text("c", 9, 2) }

\* `# ${title}${content ? "\n\n" + content : ""}`
fullContent(title, content, lane) ==
    [title |-> title, content |-> content, lane |-> lane]

\* String(result.id ?? result.cardId ?? "unknown")
cardIdOf(result) == IF result.id # "" THEN result.id ELSE "unknown"

ReportTokenError == CliError("[ERROR] CODECKS_REPORT_TOKEN not set.")

CreateCardStart ==
    /\ Idle
    /\ \E title \in TitleArgs, content \in ContentArgs :
         LET t == validateInput(title, "title")
             c == IF content # NoText THEN validateInput(content, "content")
                  ELSE Ok(NoText)
         IN /\ Invoked("create_card", [title |-> title, content |-> content])
            /\ IF ~t.ok THEN Thrown(t.err) /\ calls' = <<>> /\ loc' = <<>>
               ELSE IF ~c.ok THEN Thrown(c.err) /\ calls' = <<>> /\ loc' = <<>>
               ELSE /\ loc' = [title |-> t.value]
                    /\ IF cfg.reportToken = ""
                       THEN Thrown(ReportTokenError) /\ calls' = <<>>
                       ELSE Issued("createCard", "report", "report",
                                   [content |-> fullContent(t.value, c.value, "")],
                                   <<>>)
    /\ UNCHANGED <<cfg, net>>

CreateCardDone ==
    /\ pc = "createCard"
    /\ req.phase = "done"
    /\ LET r == reportRequest(req.result)
       IN /\ calls' = Settled(r)
          /\ IF ~r.ok THEN Thrown(r.err)
             ELSE Returned(Obj([ok |-> TRUE, card_id |-> cardIdOf(r.value.v),
                                title |-> loc.title]))
    /\ UNCHANGED <<cfg, net, inv, loc>>

\* ---- CodecksClient.listCards / listDecks (list_cards, split_features) ----

VALID_STATUSES ==
    {"not_started", "started", "done", "blocked", "in_review", "in_progress"}

\* A status argument is known by its comma-separated, trimmed parts.
StatusArgs == { <<>>, <<"started">>, <<"started", "done">>, <<"bogus">> }

\* parseMultiValue: throws at the first part that is not allowed
parseMultiValue(values, allowed, label) ==
    IF \A i \in 1 .. Len(values) : values[i] \in allowed THEN Ok(values)
    ELSE LET bad == CHOOSE i \in 1 .. Len(values) :
                       /\ values[i] \notin allowed
                       /\ \A j \in 1 .. i - 1 : values[j] \in allowed
         IN Fail(CliError(<<"[ERROR] Invalid", label, values[bad]>>))

DeckArgs == {"", "features", "Nope"}

toLowerCase(s) ==
    IF s = "Features" THEN "features"
    ELSE IF s = "Nope" THEN "nope"
    ELSE IF s = "Alice" THEN "alice"
    ELSE s

\* decks.find((d) => String(d.title ?? "").toLowerCase() ===
\*                   options.deck.toLowerCase()); 0 when there is none
findDeck(decks, name) ==
    IF \E i \in 1 .. Len(decks) :
         toLowerCase(decks[i].title) = toLowerCase(name)
    THEN CHOOSE i \in 1 .. Len(decks) :
           /\ toLowerCase(decks[i].title) = toLowerCase(name)
           /\ \A j \in 1 .. i - 1 :
                toLowerCase(decks[j].title) # toLowerCase(name)
    ELSE 0

DeckNotFound(name) == CliError(<<"[ERROR] Deck not found", name>>)

\* String(c.status ?? "")
cardStatus(c) == IF Has(c, "status") THEN c.status ELSE ""

clientFilterFirst(cards, clientStatusFilter) ==
    IF clientStatusFilter = <<>> THEN cards
    ELSE SelectSeq(cards, LAMBDA c : clientStatusFilter[1] = cardStatus(c))

\* cards.filter((c) => allowed.has(String(c.status ?? "")))
clientFilter(cards, clientStatusFilter) ==
    IF clientStatusFilter = <<>> THEN cards
    ELSE SelectSeq(cards, LAMBDA c :
            \E i \in 1 .. Len(clientStatusFilter) :
                clientStatusFilter[i] = cardStatus(c))

\* allCards.slice(offset, offset + limit)
slice(s, from, to) ==
    IF from >= Len(s) THEN <<>>
    ELSE SubSeq(s, from + 1, IF to < Len(s) THEN to ELSE Len(s))

\* listCards up to its first await: the status filter is parsed, then the
\* deck name is resolved through listDecks, or the cards query goes out.
ListCardsEnter(options) ==
    LET st == parseMultiValue(options.status, VALID_STATUSES, "status")
        cq0 == [visibility |-> "default"]
        cq1 == IF st.ok /\ Len(options.status) = 1
               THEN With(cq0, "status", options.status[1]) ELSE cq0
        l0 == [cardQuery |-> cq1,
               clientStatusFilter |->
                   IF Len(options.status) > 1 THEN options.status ELSE <<>>]
    IN IF ~st.ok
       THEN Thrown(st.err) /\ calls' = <<>> /\ loc' = <<>>
       ELSE /\ loc' = l0
            /\ IF options.deck # ""
               THEN Issued("listDecks", "query", "decks", NoArgs, <<>>)
               ELSE Issued("listCards", "query", "cards", cq1, <<>>)

LimitArgs == {1, 50}

ListCardsStart ==
    /\ Idle
    /\ \E deck \in DeckArgs, status \in StatusArgs, limit \in LimitArgs :
         LET args == [deck |-> deck, status |-> status, limit |-> limit,
                      offset |-> 0]
         IN /\ Invoked("list_cards", args)
            /\ ListCardsEnter(args)
    /\ UNCHANGED <<cfg, net>>

\* const decksResult = await this.listDecks() has settled
ListDecksDone ==
    /\ pc = "listDecks"
    /\ req.phase = "done"
    /\ LET r == sessionRequest(req.result)
           decks == extractList(r.value.v, "decks")
           k == findDeck(decks, inv.args.deck)
       IN IF ~r.ok
          THEN Thrown(r.err) /\ calls' = Settled(r) /\ loc' = loc
          ELSE IF k = 0
          THEN Thrown(DeckNotFound(inv.args.deck)) /\ calls' = Settled(r)
               /\ loc' = loc
          ELSE LET cq == With(loc.cardQuery, "deckId", decks[k].id)
               IN /\ loc' = [loc EXCEPT !.cardQuery = cq]
                  /\ Issued("listCards", "query", "cards", cq, Settled(r))
    /\ UNCHANGED <<cfg, net, inv>>

\* the list_cards handler's payload from listCards' { cards, stats, count }
listCardsPayload(cards, args) ==
    [cards |-> SlimSanitized(
                   slice(cards, args.offset, args.offset + args.limit)),
     stats |-> "null",
     total_count |-> Len(cards),
     has_more |-> args.offset + args.limit < Len(cards),
     limit |-> args.limit,
     offset |-> args.offset]

\* ---- CodecksClient.splitFeatures / scaffoldFeature ----

unsplitAny(c) == TRUE

\* !info || (info.count ?? 0) === 0
unsplit(c) == c.childCardInfo \in {"none", "zero"}

isDryRunIgnored(options) == FALSE

\* if (options.dryRun)
isDryRun(options) == options.dry_run

lanesOfDesignFirst(options) ==
    <<"Design", "Code">>
    \o (IF ~options.skip_art /\ options.art_deck # "" THEN <<"Art">> ELSE <<>>)
    \o (IF ~options.skip_audio /\ options.audio_deck # "" THEN <<"Audio">>
        ELSE <<>>)

\* the lanes of scaffoldFeature: Code, Design, then Art and Audio if wanted
lanesOf(options) ==
    <<"Code", "Design">>
    \o (IF ~options.skip_art /\ options.art_deck # "" THEN <<"Art">> ELSE <<>>)
    \o (IF ~options.skip_audio /\ options.audio_deck # "" THEN <<"Audio">>
        ELSE <<>>)

LaneArgs ==
    { [art_deck |-> "", skip_art |-> FALSE,
       audio_deck |-> "", skip_audio |-> FALSE],
      [art_deck |-> "Art", skip_art |-> FALSE,
       audio_deck |-> "", skip_audio |-> FALSE],
      [art_deck |-> "Art", skip_art |-> TRUE,
       audio_deck |-> "Audio", skip_audio |-> FALSE],
      [art_deck |-> "Art", skip_art |-> FALSE,
       audio_deck |-> "Audio", skip_audio |-> TRUE] }

SplitFeaturesStart ==
    /\ Idle
    /\ \E deck \in DeckArgs \ {""}, dry \in BOOLEAN, lane \in LaneArgs :
         LET args == [deck |-> deck, dry_run |-> dry,
                      art_deck |-> lane.art_deck, skip_art |-> lane.skip_art,
                      audio_deck |-> lane.audio_deck,
                      skip_audio |-> lane.skip_audio]
         IN /\ Invoked("split_features", args)
            /\ ListCardsEnter([deck |-> deck, status |-> <<>>])
    /\ UNCHANGED <<cfg, net>>

dryRunResult(features) ==
    Obj([ok |-> TRUE, dry_run |-> TRUE, features_found |-> Len(features),
         features |-> [i \in 1 .. Len(features) |->
                          [id |-> features[i].id, title |-> features[i].title]]])

splitFeaturesResult(l) ==
    Obj([ok |-> TRUE, features_processed |-> l.processed,
         features_skipped |-> Len(l.features) - l.processed,
         details |-> l.details])

failedDetail(feature, err) ==
    [ok |-> FALSE, title |-> feature.title, error |-> ErrMessage(err)]

\* The for loop of splitFeatures reaches feature l.f: scaffoldFeature creates
\* the hero card first, or the loop has run out and the summary is returned.
SplitFeaturesLoop(l, log) ==
    /\ loc' = l
    /\ IF l.f > Len(l.features)
       THEN Returned(splitFeaturesResult(l)) /\ calls' = log
       ELSE Issued("scaffoldFeature", "report", "report",
                   [content |-> fullContent(l.features[l.f].title, NoText, "")],
                   log)

\* After listCards: the dry-run summary, or the loop over the features.  With
\* no report token every createCard throws before any request is made.
SplitFeaturesAfterList(cards, log) ==
    LET features == SelectSeq(cards, unsplit)
        l0 == [features |-> features, f |-> 1, lane |-> 0, heroId |-> "",
               subcards |-> <<>>, processed |-> 0, details |-> <<>>]
    IN IF isDryRun(inv.args)
       THEN Returned(dryRunResult(features)) /\ calls' = log /\ loc' = l0
       ELSE IF cfg.reportToken = ""
       THEN SplitFeaturesLoop(
                [l0 EXCEPT !.f = Len(features) + 1,
                           !.details = [i \in 1 .. Len(features) |->
                               failedDetail(features[i], ReportTokenError)]],
                log)
       ELSE SplitFeaturesLoop(l0, log)

\* const result = await query(q) of listCards has settled
ListCardsDone ==
    /\ pc = "listCards"
    /\ req.phase = "done"
    /\ LET r == sessionRequest(req.result)
           cards == clientFilter(extractCards(r.value.v),
                                 loc.clientStatusFilter)
       IN IF ~r.ok
          THEN Thrown(r.err) /\ calls' = Settled(r) /\ loc' = loc
          ELSE IF inv.tool = "list_cards"
          THEN /\ Returned(Obj(listCardsPayload(cards, inv.args)))
               /\ calls' = Settled(r)
               /\ loc' = loc
          ELSE SplitFeaturesAfterList(cards, Settled(r))
    /\ UNCHANGED <<cfg, net, inv>>

\* await this.createCard(...) inside scaffoldFeature has settled
ScaffoldCreated ==
    /\ pc = "scaffoldFeature"
    /\ req.phase = "done"
    /\ LET r == reportRequest(req.result)
           feature == loc.features[loc.f]
           lanes == lanesOf(inv.args)
           sub(k) == [content |-> fullContent(feature.title, NoText, lanes[k])]
           subcards == Append(loc.subcards,
                              [lane |-> lanes[loc.lane],
                               card_id |-> cardIdOf(r.value.v)])
           rewind(l) == [l EXCEPT !.f = @ + 1, !.lane = 0, !.heroId = "",
                                  !.subcards = <<>>]
       IN IF ~r.ok
          THEN SplitFeaturesLoop(
                   rewind([loc EXCEPT !.details =
                               Append(@, failedDetail(feature, r.err))]),
                   Settled(r))
          ELSE IF loc.lane = 0
          THEN /\ loc' = [loc EXCEPT !.heroId = cardIdOf(r.value.v),
                                     !.lane = 1]
               /\ Issued("scaffoldFeature", "report", "report", sub(1),
                         Settled(r))
          ELSE IF loc.lane < Len(lanes)
          THEN /\ loc' = [loc EXCEPT !.subcards = subcards, !.lane = @ + 1]
               /\ Issued("scaffoldFeature", "report", "report",
                         sub(loc.lane + 1), Settled(r))
          ELSE SplitFeaturesLoop(
                   rewind([loc EXCEPT
                       !.processed = @ + 1,
                       !.details = Append(@, [ok |-> TRUE,
                                              hero_id |-> loc.heroId,
                                              title |-> feature.title,
                                              subcards |-> subcards])]),
                   Settled(r))
    /\ UNCHANGED <<cfg, net, inv>>

\* ---- scaffold_feature / CodecksClient.scaffoldFeature ----

ScaffoldFeatureStart ==
    /\ Idle
    /\ \E title \in TitleArgs, description \in ContentArgs, lane \in LaneArgs :
         LET t == validateInput(title, "title")
             d == IF description # NoText
                  THEN validateInput(description, "description")
                  ELSE Ok(NoText)
             args == [title |-> title, description |-> description,
                      art_deck |-> lane.art_deck, skip_art |-> lane.skip_art,
                      audio_deck |-> lane.audio_deck,
                      skip_audio |-> lane.skip_audio]
         IN /\ Invoked("scaffold_feature", args)
            /\ IF ~t.ok THEN Thrown(t.err) /\ calls' = <<>> /\ loc' = <<>>
               ELSE IF ~d.ok THEN Thrown(d.err) /\ calls' = <<>> /\ loc' = <<>>
               ELSE /\ loc' = [title |-> t.value, lane |-> 0, heroId |-> "",
                               subcards |-> <<>>]
                    /\ IF cfg.reportToken = ""
                       THEN Thrown(ReportTokenError) /\ calls' = <<>>
                       ELSE Issued("scaffold", "report", "report",
                                   [content |-> fullContent(t.value, d.value, "")],
                                   <<>>)
    /\ UNCHANGED <<cfg, net>>

\* await this.createCard(...) of a scaffold_feature call has settled: a
\* failure leaves scaffoldFeature and reaches the handler's catch
ScaffoldFeatureCreated ==
    /\ pc = "scaffold"
    /\ req.phase = "done"
    /\ LET r == reportRequest(req.result)
           lanes == lanesOf(inv.args)
           sub(k) == [content |-> fullContent(loc.title, NoText, lanes[k])]
           subcards == Append(loc.subcards,
                              [lane |-> lanes[loc.lane],
                               card_id |-> cardIdOf(r.value.v)])
       IN IF ~r.ok
          THEN Thrown(r.err) /\ calls' = Settled(r) /\ loc' = loc
          ELSE IF loc.lane = 0
          THEN /\ loc' = [loc EXCEPT !.heroId = cardIdOf(r.value.v),
                                     !.lane = 1]
               /\ Issued("scaffold", "report", "report", sub(1), Settled(r))
          ELSE IF loc.lane < Len(lanes)
          THEN /\ loc' = [loc EXCEPT !.subcards = subcards, !.lane = @ + 1]
               /\ Issued("scaffold", "report", "report", sub(loc.lane + 1),
                         Settled(r))
          ELSE /\ loc' = [loc EXCEPT !.subcards = subcards]
               /\ calls' = Settled(r)
               /\ Returned(Obj([ok |-> TRUE, hero_id |-> loc.heroId,
                                title |-> loc.title, subcards |-> subcards]))
    /\ UNCHANGED <<cfg, net, inv>>

-----------------------------------------------------------------------------
(* Spec: the server handles tool invocations one after another *)

\* No tool reads both userId and reportToken, so the two are varied together.
ToolConfigs ==
    { [httpMaxRetries |-> DefaultRetries, httpRetryBase |-> 1,
       mcpResponseMode |-> m, userId |-> c, reportToken |-> c] :
          m \in {"legacy", "envelope"}, c \in {"", "set"} }

Init ==
    /\ cfg \in ToolConfigs
    /\ net = "brief"
    /\ req = IdleReq
    /\ inv = NoInv
    /\ pc = "idle"
    /\ loc = <<>>
    /\ calls = <<>>
    /\ out = NoOut

\* The result went out; the server (index.ts) waits for the next tool call.
\* Nothing of the finished invocation is kept: the client and the handlers
\* hold no state between calls.
AwaitNext ==
    /\ pc = "returned"
    /\ pc' = "waiting"
    /\ inv' = NoInv
    /\ loc' = <<>>
    /\ calls' = <<>>
    /\ out' = NoOut
    /\ UNCHANGED <<cfg, net, req>>

Next ==
    \/ HttpFetch
    \/ HttpSleep
    \/ AwaitNext
    \/ UpdateCardsStart
    \/ UpdateCardsNext
    \/ DeleteCardStart
    \/ DeleteCardArchived
    \/ DeleteCardRemoved
    \/ GetAccountStart
    \/ GetAccountDone
    \/ ListHandStart
    \/ ListHandDone
    \/ AddToHandStart
    \/ AddToHandDone
    \/ RemoveFromHandStart
    \/ RemoveFromHandDone
    \/ CreateCommentStart
    \/ CreateCommentDone
    \/ ReplyCommentStart
    \/ ReplyCommentDone
    \/ CreateCardStart
    \/ CreateCardDone
    \/ ScaffoldFeatureStart
    \/ ScaffoldFeatureCreated
    \/ ListCardsStart
    \/ ListDecksDone
    \/ ListCardsDone
    \/ SplitFeaturesStart
    \/ ScaffoldCreated

Spec == Init /\ [][Next]_vars

-----------------------------------------------------------------------------
(* Transport properties (SpecHttp) *)

FetchEvents(r) == SelectSeq(r.events, LAMBDA ev : ev.e = "fetch")
SleepEvents(r) == SelectSeq(r.events, LAMBDA ev : ev.e = "sleep")
Fetches(r) == Len(FetchEvents(r))

Failed(o) == o.kind # "http" \/ o.status # 200
RetryableFailure(o) ==
    \/ o.kind \in {"timeout", "connerr"}
    \/ o.kind = "http" /\ o.status \in {429, 502, 503, 504}

\* C1 as stated: a non-idempotent request makes exactly one attempt whatever
\* the outcome, and an idempotent request never makes more than
\* 1 + config.httpMaxRetries attempts.
C1_Original ==
    /\ (~req.idempotent /\ req.phase = "done") => Fetches(req) = 1
    /\ ~req.idempotent => Fetches(req) <= 1
    /\ req.idempotent => Fetches(req) <= 1 + cfg.httpMaxRetries

\* C1 amended: a non-idempotent request makes exactly one attempt whatever
\* the outcome; an idempotent request never makes more than
\* 1 + max(0, config.httpMaxRetries) attempts (a negative budget counts as 0).
C1_AttemptBudget ==
    /\ (~req.idempotent /\ req.phase = "done") => Fetches(req) = 1
    /\ ~req.idempotent => Fetches(req) <= 1
    /\ req.idempotent => Fetches(req) <= 1 + Max(0, cfg.httpMaxRetries)
    /\ req.phase = "done" => Fetches(req) >= 1

C1_Witness ==
    /\ req.phase = "done" /\ ~req.idempotent /\ cfg.httpMaxRetries = 2
    /\ Fetches(req) = 1
    /\ FetchEvents(req)[1].o.status = 503
    /\ ~req.result.ok

Statuses(r) == [i \in 1 .. Fetches(r) |-> FetchEvents(r)[i].o.status]

\* The upstream answered 503, 503 and then a 200 whose body is a JSON value
\* within the size ceiling.
Answered503_503_200(r) ==
    /\ Fetches(r) = 3
    /\ Statuses(r) = <<503, 503, 200>>
    /\ \A i \in 1 .. 3 : FetchEvents(r)[i].o.kind = "http"
    /\ FetchEvents(r)[3].o.size = "small"
    /\ FetchEvents(r)[3].o.parse # "invalid"

\* C2: an idempotent request with 2 retries that is answered 503, 503, 200
\* returns the parsed body of the 200 on the third attempt, sleeps once
\* between attempts 1 and 2 and once between attempts 2 and 3 (base and
\* 2 * base seconds when the 503 carries no usable Retry-After), and makes
\* no attempt after the success.
C2_RetryThenSucceed ==
    (req.idempotent /\ cfg.httpMaxRetries = 2 /\ Answered503_503_200(req)) =>
        /\ req.phase = "done"
        /\ req.result = Ok([t |-> FetchEvents(req)[3].o.parse,
                            v |-> FetchEvents(req)[3].o.body])
        /\ Len(req.events) = 5
        /\ [i \in 1 .. 5 |-> req.events[i].e]
             = <<"fetch", "sleep", "fetch", "sleep", "fetch">>
        /\ \A i \in 1 .. 2 :
             FetchEvents(req)[i].o.hdr \in {"absent", "date", "0"} =>
                 req.events[2 * i].d = cfg.httpRetryBase * Pow2(i - 1)
        /\ ~ENABLED HttpFetch /\ ~ENABLED HttpSleep

C2_Witness ==
    /\ req.idempotent /\ cfg.httpMaxRetries = 2 /\ Answered503_503_200(req)
    /\ FetchEvents(req)[1].o.hdr = "absent"
    /\ FetchEvents(req)[2].o.hdr = "absent"
    /\ req.result.ok

\* C3: a failed attempt is followed by another attempt (or by the sleep that
\* precedes it) only when the call is idempotent and the failure is a status
\* in {429, 502, 503, 504}, a timeout or a connection error; any other HTTP
\* error status ends the request with that HTTP error; a timed-out attempt of
\* an idempotent call is retried while retries remain.
C3_RetryEligibility ==
    LET f == FetchEvents(req)
        n == Len(f)
    IN  /\ \A i \in 1 .. n :
             (i < n \/ req.phase = "sleeping") =>
                 /\ Failed(f[i].o)
                 /\ req.idempotent
                 /\ RetryableFailure(f[i].o)
        /\ (n > 0 /\ Failed(f[n].o) /\ ~RetryableFailure(f[n].o)) =>
             /\ req.phase = "done"
             /\ req.result = Fail(HTTPError(f[n].o.status))
        /\ (n > 0 /\ f[n].o.kind = "timeout" /\ req.idempotent
               /\ n <= cfg.httpMaxRetries) =>
             req.phase \in {"sleeping", "ready"}

C3_Witness ==
    LET f == FetchEvents(req)
    IN  /\ req.idempotent /\ cfg.httpMaxRetries = 2
        /\ Len(f) = 2
        /\ f[1].o.kind = "timeout"
        /\ f[2].o.kind = "http" /\ f[2].o.status = 500
        /\ req.phase = "done"

-----------------------------------------------------------------------------
(* Tool properties (Spec) *)

Returning(tool) == pc = "returned" /\ inv.tool = tool

\* What the caller reads: the payload sits under `data` in envelope mode.
PayloadOf(o) == IF Has(o.v, "data") THEN o.v.data ELSE o.v

OkCount(results) == Len(SelectSeq(results, LAMBDA e : e.ok))

UpdateArgsValid ==
    /\ \A i \in 1 .. Len(inv.args.card_ids) : inv.args.card_ids[i].name > 0
    /\ inv.args.title.len - inv.args.title.ctrl <= 500

\* C4: updateCards dispatches one cards/update per card id in the given
\* order; without continueOnError nothing is dispatched after the first
\* failed call, the results hold one entry per dispatched call (ok entries,
\* then the failure with its message), updated counts the ok entries, and the
\* success flag is true iff at least one update succeeded.
C4_BatchStopsAtFirstFailure ==
    inv.tool = "update_cards" =>
        LET ids == inv.args.card_ids
            n == Len(calls)
        IN  /\ n <= Len(ids)
            /\ \A k \in 1 .. n :
                 /\ calls[k].kind = "dispatch" /\ calls[k].path = "cards/update"
                 /\ calls[k].payload.id = ids[k]
                 /\ k < n => calls[k].done
            /\ ~inv.args.continue_on_error =>
                 \A k \in 1 .. n - 1 : calls[k].ok
            /\ (pc = "returned" /\ UpdateArgsValid) =>
                 LET p == PayloadOf(out)
                 IN  /\ Len(p.results) = n
                     /\ \A k \in 1 .. n :
                          /\ calls[k].done
                          /\ p.results[k].card_id = ids[k]
                          /\ p.results[k].ok = calls[k].ok
                          /\ ~calls[k].ok =>
                               p.results[k].error = ErrMessage(calls[k].err)
                     /\ p.updated = OkCount(p.results)
                     /\ out.v.ok = (p.updated > 0)
                     /\ n < Len(ids) =>
                          ~inv.args.continue_on_error /\ ~calls[n].ok

C4_Witness ==
    /\ Returning("update_cards")
    /\ inv.args.card_ids = <<GoodId(1), GoodId(2), GoodId(3)>>
    /\ ~inv.args.continue_on_error
    /\ Len(calls) = 2
    /\ calls[1].ok /\ ~calls[2].ok
    /\ PayloadOf(out).updated = 1
    /\ Len(PayloadOf(out).results) = 2
    /\ out.v.ok

IsArchive(c) ==
    /\ c.kind = "dispatch" /\ c.path = "cards/update"
    /\ c.payload.visibility = "archived"
IsRemove(c) ==
    /\ c.kind = "dispatch" /\ c.path = "cards/bulkUpdate"
    /\ c.payload.visibility = "deleted"

\* C5: deleteCard issues the archive call first and the remove call only
\* after the archive call succeeded; a failed archive call is followed by no
\* remove call; when either call fails the handler returns the failure
\* envelope of that error and never a result with ok:true, and no further
\* call undoes the archive.
C5_DeleteTwoPhase ==
    inv.tool = "delete_card" =>
        /\ Len(calls) <= 2
        /\ Len(calls) >= 1 =>
             IsArchive(calls[1]) /\ calls[1].payload.id = inv.args.card_id
        /\ Len(calls) = 2 =>
             /\ IsRemove(calls[2])
             /\ calls[2].payload.ids = <<inv.args.card_id>>
             /\ calls[1].done /\ calls[1].ok
        /\ pc = "returned" =>
             /\ \A k \in 1 .. Len(calls) : calls[k].done
             /\ out.v.ok =
                  (Len(calls) = 2 /\ calls[1].ok /\ calls[2].ok)
             /\ \A k \in 1 .. Len(calls) :
                  ~calls[k].ok =>
                      /\ k = Len(calls)
                      /\ out.v = handleError(calls[k].err)

C5_Witness ==
    /\ Returning("delete_card")
    /\ Len(calls) = 2
    /\ calls[1].ok /\ ~calls[2].ok
    /\ out.v.ok = FALSE
    /\ out.v.error_detail.type = "error"

\* The failure envelope of contractError for error e: ok=false, the message,
\* the schema version and error_detail {type, message}, and nothing else.
FailureEnvelope(o, e) ==
    /\ o.t = "obj"
    /\ DOMAIN o.v = {"ok", "schema_version", "type", "error", "error_detail"}
    /\ o.v.ok = FALSE
    /\ o.v.schema_version = "1.0"
    /\ DOMAIN o.v.error_detail = {"type", "message"}
    /\ o.v.error_detail.message = o.v.error
    /\ o.v.error_detail.type = (IF e.cls = "SetupError" THEN "setup" ELSE "error")
    /\ o.v.type = o.v.error_detail.type

\* C6: every result a tool returns, in both presentation modes, is an object
\* carrying ok and schema_version; never a bare list.
C6_Original ==
    pc = "returned" =>
        /\ out.t = "obj"
        /\ Has(out.v, "ok")
        /\ Has(out.v, "schema_version")

\* C7 as stated: whenever a request of the invocation failed, the tool result
\* is the failure envelope of that error, of type "setup" for a SetupError
\* and "error" otherwise, with no success payload beside it.
C7_Original ==
    pc = "returned" =>
        \A k \in 1 .. Len(calls) :
            ~calls[k].ok => FailureEnvelope(out, calls[k].err)

\* Failures that the client catches and records per item: the dispatches of
\* updateCards and the card creations of splitFeatures.
CaughtPerItem(k) ==
    \/ inv.tool = "update_cards"
    \/ inv.tool = "split_features" /\ calls[k].kind = "report"

Malformed(id) == id.name < 0

BadIdList ==
    /\ inv.tool \in {"update_cards", "add_to_hand"}
    /\ \E i \in 1 .. Len(inv.args.card_ids) : Malformed(inv.args.card_ids[i])

BadId ==
    /\ inv.tool \in {"delete_card", "create_comment"}
    /\ Malformed(inv.args.card_id)

OverLong ==
    \/ /\ inv.tool \in {"update_cards", "create_card"}
       /\ inv.args.title.len - inv.args.title.ctrl > 500
    \/ /\ inv.tool = "create_comment"
       /\ inv.args.message.len - inv.args.message.ctrl > 10000

NoUserId ==
    /\ inv.tool \in {"add_to_hand", "create_comment"}
    /\ cfg.userId = ""

UnknownStatus ==
    /\ inv.tool = "list_cards"
    /\ \E i \in 1 .. Len(inv.args.status) : inv.args.status[i] = "bogus"

\* The deck lookup came back and holds no deck of the requested name.
UnmatchedDeck ==
    /\ inv.tool \in {"list_cards", "split_features"}
    /\ Len(calls) >= 1
    /\ calls[1].path = "decks" /\ calls[1].done /\ calls[1].ok
    /\ inv.args.deck = "Nope" \/ calls[1].value.v.deck = <<>>

LocalViolation == BadIdList \/ BadId \/ OverLong \/ NoUserId \/ UnknownStatus

\* C7 (amended): an error that reaches the handler's catch -- a failed
\* request that the client does not record per item, a validation or
\* business-rule violation, a missing account -- is returned as the failure
\* envelope of contractError: type "setup" for a SetupError, "error"
\* otherwise, and no success payload beside it.
C7_PropagatedErrorEnvelope ==
    pc = "returned" =>
        /\ out # NoOut
        /\ \A k \in 1 .. Len(calls) :
             (~calls[k].ok /\ ~CaughtPerItem(k)) =>
                 FailureEnvelope(out, calls[k].err)
        /\ (LocalViolation \/ UnmatchedDeck) =>
             FailureEnvelope(out, CliError(""))
        /\ (inv.tool = "create_card" /\ cfg.reportToken = "") =>
             FailureEnvelope(out, CliError(""))
        /\ (/\ inv.tool = "get_account"
            /\ calls[1].ok /\ calls[1].value.v.account = "") =>
             FailureEnvelope(out, SetupError(""))

C7_Witness ==
    /\ Returning("get_account")
    /\ calls[1].status = 401
    /\ InstanceOfSetupError(calls[1].err)
    /\ out.v.ok = FALSE
    /\ out.v.error_detail.type = "setup"

\* C8: every upstream call that ends with HTTP 401 or 403 yields a failure
\* envelope of type "setup", and such a response is never retried.
C8_Original ==
    /\ pc = "returned" =>
         \A k \in 1 .. Len(calls) :
             calls[k].status \in {401, 403} =>
                 /\ out.t = "obj"
                 /\ out.v.ok = FALSE
                 /\ Has(out.v, "type")
                 /\ out.v.type = "setup"
    /\ \A i \in 1 .. Len(req.events) :
         (req.events[i].e = "fetch" /\ req.events[i].o.status \in {401, 403}) =>
             i = Len(req.events) /\ req.phase = "done"

C10_DryRunReadsOnly ==
    (inv.tool = "split_features" /\ inv.args.dry_run) =>
        /\ Len(calls) <= 2
        /\ \A k \in 1 .. Len(calls) : calls[k].kind = "query"
        /\ Len(calls) >= 1 => calls[1].path = "decks"
        /\ Len(calls) = 2 => calls[2].path = "cards"
        /\ pc # "scaffoldFeature"
        /\ (pc = "returned" /\ Len(calls) = 2 /\ calls[2].ok) =>
             LET found == SelectSeq(calls[2].value.v.card,
                                    LAMBDA c : c.childCardInfo # "some")
                 p == PayloadOf(out)
             IN  /\ out.v.ok
                 /\ Has(p, "dry_run") /\ p.dry_run
                 /\ p.features_found = Len(found)
                 /\ Len(p.features) = Len(found)
                 /\ \A i \in 1 .. Len(found) :
                      p.features[i] =
                          [id |-> found[i].id, title |-> found[i].title]

C10_Witness ==
    /\ Returning("split_features")
    /\ inv.args.dry_run
    /\ cfg.reportToken # ""
    /\ Len(calls) = 2
    /\ Len(calls[2].value.v.card) = 2
    /\ PayloadOf(out).features_found = 1

-----------------------------------------------------------------------------
(* SpecContract: the response contract (contract.ts) as pure functions.     *)
(* A result is drawn, normalized repeatedly and finalized.                  *)

MaxNormalize == 2    \* how many times in a row a payload is normalized

\* A value of `error` that is no string (the number 42).
NumberValue == [prefix |-> "", name |-> "#number", text |-> "42", code |-> 0]
StringValue == [prefix |-> "", name |-> "", text |-> "bad", code |-> 0]

\* Object payloads: each contract field absent or present, beside one
\* business field.
Payloads ==
    { Opt(Opt(Opt(Opt(Opt([cards |-> <<>>],
          "ok", o = "true", o # "absent"),
          "schema_version", s, s # "absent"),
          "type", t, t # "absent"),
          "error", IF e = "number" THEN NumberValue ELSE StringValue,
                   e # "absent"),
          "error_detail", [type |-> "setup", message |-> StringValue], d) :
        o \in {"absent", "true", "false"},
        s \in {"absent", "1.0", "0.9"},
        t \in {"absent", "setup"},
        e \in {"absent", "string", "number"},
        d \in BOOLEAN }

\* Results handed to finalizeToolResult: an object or a raw list.
ContractResults ==
    { Obj(p) : p \in Payloads } \cup { Arr(<<>>), Arr(<<1, 2, 3>>) }

ContractConfigs ==
    { [httpMaxRetries |-> DefaultRetries, httpRetryBase |-> 1,
       mcpResponseMode |-> m, userId |-> "", reportToken |-> ""] :
          m \in {"legacy", "envelope"} }

InitContract ==
    /\ cfg \in ContractConfigs
    /\ net = "none"
    /\ req = IdleReq
    /\ \E r \in ContractResults : inv = [tool |-> "contract", args |-> r]
    /\ pc = "contract"
    /\ loc = <<>>
    /\ calls = <<>>
    /\ out = NoOut

\* ensureContractDict applied to the payload, then to its own result
Normalize ==
    /\ pc = "contract"
    /\ inv.args.t = "obj"
    /\ Len(loc) < MaxNormalize
    /\ loc' = Append(loc, ensureContractDict(
                              IF loc = <<>> THEN inv.args.v
                              ELSE loc[Len(loc)]))
    /\ UNCHANGED <<cfg, net, req, inv, pc, calls, out>>

\* finalizeToolResult applied to the result
Finalize ==
    /\ pc = "contract"
    /\ out = NoOut
    /\ out' = finalizeToolResult(inv.args)
    /\ UNCHANGED <<cfg, net, req, inv, pc, loc, calls>>

NextContract == Normalize \/ Finalize

SpecContract == InitContract /\ [][NextContract]_vars

\* C11: normalizing is idempotent -- normalizing a normalized payload changes
\* nothing -- and one normalization keeps every field of the payload but a
\* non-string error of a failure, adds schema_version and ok only when
\* absent, keeps an explicit ok:false, and fills error_detail from
\* type/error only when it is missing.
C11_NormalizeIdempotent ==
    (pc = "contract" /\ Len(loc) >= 1) =>
        LET p == inv.args.v
            n == loc[1]
            failure == Has(p, "ok") /\ ~p.ok
        IN  /\ \A i \in 2 .. Len(loc) : loc[i] = n
            /\ \A k \in DOMAIN p \ {"error"} : n[k] = p[k]
            /\ DOMAIN n = DOMAIN p \cup {"schema_version", "ok"}
                   \cup (IF failure THEN {"error", "error_detail"} ELSE {})
            /\ ~Has(p, "schema_version") => n.schema_version = "1.0"
            /\ ~Has(p, "ok") => n.ok
            /\ failure =>
                 /\ ~n.ok
                 /\ n.error.name # "#number"
                 /\ (Has(p, "error") /\ p.error.name # "#number") =>
                        n.error = p.error
                 /\ ~Has(p, "error_detail") =>
                        n.error_detail =
                            [type |-> IF Has(p, "type") THEN p.type ELSE "error",
                             message |-> n.error]
            /\ (~failure /\ Has(p, "error")) => n.error = p.error

C11_Witness ==
    /\ pc = "contract"
    /\ Len(loc) = 2
    /\ Has(inv.args.v, "ok") /\ ~inv.args.v.ok
    /\ ~Has(inv.args.v, "error_detail")
    /\ ~Has(inv.args.v, "schema_version")
    /\ loc[2] = loc[1]
    /\ loc[2].error_detail.type = "setup"

\* C12: finalizeToolResult returns a failure (ok:false) normalized and never
\* wrapped under data, in both modes; in envelope mode a successful object
\* becomes {ok:true, schema_version, data} with data the result without ok
\* and schema_version; in legacy mode a successful object comes back with ok
\* and schema_version at top level and a raw list comes back untouched.
C12_FinalizeByMode ==
    (pc = "contract" /\ out # NoOut) =>
        LET r == inv.args
            p == r.v
            failure == Has(p, "ok") /\ ~p.ok
            keep == DOMAIN p \ {"ok", "schema_version"}
        IN  IF r.t # "obj"
            THEN cfg.mcpResponseMode = "legacy" =>
                     out.t = "arr" /\ out.v = r.v
            ELSE /\ out.t = "obj"
                 /\ failure =>
                      /\ ~out.v.ok
                      /\ ~Has(out.v, "data")
                      /\ \A k \in DOMAIN p \ {"error"} : out.v[k] = p[k]
                      /\ Has(out.v, "error_detail")
                 /\ (~failure /\ cfg.mcpResponseMode = "envelope") =>
                      /\ DOMAIN out.v = {"ok", "schema_version", "data"}
                      /\ out.v.ok
                      /\ out.v.schema_version = "1.0"
                      /\ DOMAIN out.v.data = keep
                      /\ \A k \in keep : out.v.data[k] = p[k]
                 /\ (~failure /\ cfg.mcpResponseMode = "legacy") =>
                      /\ DOMAIN out.v = DOMAIN p \cup {"ok", "schema_version"}
                      /\ \A k \in DOMAIN p : out.v[k] = p[k]
                      /\ out.v.ok
                      /\ ~Has(p, "schema_version") =>
                             out.v.schema_version = "1.0"

C12_Witness ==
    /\ pc = "contract"
    /\ cfg.mcpResponseMode = "envelope"
    /\ inv.args.t = "obj"
    /\ Has(inv.args.v, "ok") /\ inv.args.v.ok
    /\ Has(inv.args.v, "schema_version")
    /\ Has(inv.args.v, "type")
    /\ out.t = "obj"
    /\ Has(out.v, "data")
    /\ DOMAIN out.v.data = DOMAIN inv.args.v \ {"ok", "schema_version"}

-----------------------------------------------------------------------------
(* SpecClient: the methods of CodecksClient on an upstream that answers *)

MaxListed == 2       \* most cards the upstream holds for one cards query

\* A card as the cards query of listCards returns it.  Timestamps are day
\* numbers; a card without an owner has no assignee.
ListedCard(id, status, owner, updated, created, priority, effort, title) ==
    Opt([id |-> id, status |-> status, lastUpdatedAt |-> updated,
         createdAt |-> created, priority |-> priority, effort |-> effort,
         title |-> title],
        "assignee", [name |-> owner], owner # "")

CardPool ==
    { ListedCard(1, "started", "Alice", 1, 2, "a", 5, "b"),
      ListedCard(2, "blocked", "", 5, 1, "b", 10, "a"),
      ListedCard(3, "done", "Alice", 5, 5, "a", 5, "a"),
      ListedCard(4, "started", "", 8, 8, "b", 10, "b") }

\* What the account holds: up to MaxListed different cards, in upstream order.
Boards ==
    UNION { { b \in [1 .. n -> CardPool] :
                \A i, j \in 1 .. n : i # j => b[i] # b[j] } :
            n \in 0 .. MaxListed }

\* The upstream's answer to cards(cardQuery): the cards with the queried
\* status (cardQuery.status, client.ts line 122), in upstream order.
Serve(cardQuery, board) ==
    IF Has(cardQuery, "status")
    THEN SelectSeq(board, LAMBDA c : c.status = cardQuery.status)
    ELSE board

\* The options of listCards: status as its comma-separated parts; "" and 0
\* stand for an option that was not supplied.
ListOptions ==
    [status : { <<>>, <<"started">>, <<"started", "blocked">> },
     owner : {"", "none", "alice"},
     staleDays : {0, 7},
     priority : {"", "a"},
     updatedAfter : {0, 3},
     sort : {"", "updated", "created", "title", "effort"}]

\* new Date(): the day listCards runs
Today == 10

\* if (options.owner) cards = cards.filter(...)
ownerFilter(cards, owner) ==
    IF owner = "" THEN cards
    ELSE IF owner = "none"
    THEN SelectSeq(cards, LAMBDA c : ~Has(c, "assignee"))
    ELSE SelectSeq(cards, LAMBDA c :
             Has(c, "assignee")
             /\ toLowerCase(c.assignee.name) = toLowerCase(owner))

\* if (options.staleDays) cards = cards.filter(updated < cutoff)
staleFilter(cards, staleDays) ==
    IF staleDays = 0 THEN cards
    ELSE SelectSeq(cards, LAMBDA c : c.lastUpdatedAt < Today - staleDays)

\* String(v): the decimal digits of a number, a string as it is
String(field, v) ==
    IF field # "effort" THEN v
    ELSE IF v = 5 THEN "5"
    ELSE IF v = 10 THEN "10"
    ELSE "0"

\* The strings the sort compares, in the order of localeCompare.
Collation == <<"", "0", "10", "5", "a", "b">>

rank(s) == CHOOSE i \in 1 .. Len(Collation) : Collation[i] = s

\* a.localeCompare(b): negative, zero or positive
localeCompare(a, b) == rank(a) - rank(b)

\* String(getField(card, sortField) ?? "")
sortValue(card, sortField) ==
    IF Has(card, sortField) THEN String(sortField, card[sortField]) ELSE ""

\* the comparator handed to cards.sort
compareCards(a, b, sortField) ==
    LET reverse == sortField \in {"updated", "created"}
        va == sortValue(a, sortField)
        vb == sortValue(b, sortField)
    IN IF reverse THEN localeCompare(vb, va) ELSE localeCompare(va, vb)

\* x put into the sorted s behind every card that does not compare after it
insertCard(s, x, sortField) ==
    LET after == { i \in 1 .. Len(s) : compareCards(s[i], x, sortField) > 0 }
        at == IF after = {} THEN Len(s) + 1
              ELSE CHOOSE i \in after : \A j \in after : i <= j
    IN SubSeq(s, 1, at - 1) \o <<x>> \o SubSeq(s, at, Len(s))

RECURSIVE sortCards(_, _)
\* cards.sort(comparator): Array.prototype.sort is stable
sortCards(cards, sortField) ==
    IF sortField = "" \/ cards = <<>> THEN cards
    ELSE insertCard(sortCards(SubSeq(cards, 1, Len(cards) - 1), sortField),
                    cards[Len(cards)], sortField)

\* listCards after await query(q): client-side filters, sort, the result
listCardsResult(cards, options, clientStatusFilter) ==
    LET kept == staleFilter(
                    ownerFilter(clientFilter(cards, clientStatusFilter),
                                options.owner),
                    options.staleDays)
        sorted == sortCards(kept, options.sort)
    IN [cards |-> sorted, stats |-> "null", count |-> Len(sorted)]

ClientConfigs ==
    { [httpMaxRetries |-> DefaultRetries, httpRetryBase |-> 1,
       mcpResponseMode |-> m, userId |-> "", reportToken |-> ""] :
          m \in {"legacy", "envelope"} }

InitClient ==
    /\ cfg \in ClientConfigs
    /\ net = "none"
    /\ req = IdleReq
    /\ inv = NoInv
    /\ pc = "idle"
    /\ loc = <<>>
    /\ calls = <<>>
    /\ out = NoOut

\* The answer value to the last call of the log has come back to the client.
Answered(value) ==
    [calls EXCEPT ![Len(calls)] =
        [@ EXCEPT !.done = TRUE, !.ok = TRUE, !.value = value, !.status = 200]]

\* listCards(options) up to const result = await query(q)
ClientListCardsQuery ==
    /\ pc = "idle"
    /\ \E options \in ListOptions :
         LET st == parseMultiValue(options.status, VALID_STATUSES, "status")
             cq0 == [visibility |-> "default"]
             cq == IF Len(options.status) = 1
                   THEN With(cq0, "status", options.status[1]) ELSE cq0
         IN /\ Invoked("listCards", options)
            /\ loc' = [cardQuery |-> cq,
                       clientStatusFilter |->
                           IF Len(options.status) > 1 THEN options.status
                           ELSE <<>>]
            /\ calls' = <<Call("query", "cards", cq)>>
            /\ st.ok       \* every status of ListOptions is a valid one
    /\ pc' = "listCards"
    /\ UNCHANGED <<cfg, net, req, out>>

\* the upstream answers the cards query and listCards returns
ClientListCardsDone ==
    /\ pc = "listCards"
    /\ \E board \in Boards :
         LET result == [NoBody EXCEPT !.card = Serve(loc.cardQuery, board)]
         IN /\ calls' = Answered(Obj(result))
            /\ out' = Obj(listCardsResult(extractCards(result), inv.args,
                                          loc.clientStatusFilter))
    /\ pc' = "returned"
    /\ UNCHANGED <<cfg, net, req, inv, loc>>

\* ---- listDecks, listProjects, listMilestones, listTags, listActivity,
\* ---- listHand: a query whose result goes through extractList ----

PluralKeys ==
    {"decks", "projects", "milestones", "masterTags", "activities",
     "queueEntries"}

\* What a result may hold under one key: nothing (the key is absent), an
\* empty entity map, or a map with the entity e.
Held(e) == {"absent", "empty", e}

\* The result with `one` under the singular key and `many` under the plural
QueryResult(queryKey, one, many) ==
    Opt(Opt([account |-> "acct"],
            singularKey(queryKey),
            IF one = "empty" THEN <<>> ELSE <<[title |-> one]>>,
            one # "absent"),
        queryKey,
        IF many = "empty" THEN <<>> ELSE <<[title |-> many]>>,
        many # "absent")

\* const result = await query(...); return this.extractList(result, key)
ClientListEntities ==
    /\ pc = "idle"
    /\ \E queryKey \in PluralKeys, one \in Held("one"), many \in Held("many") :
         LET result == QueryResult(queryKey, one, many)
         IN /\ Invoked("extractList", [queryKey |-> queryKey])
            /\ calls' = <<[Call("query", queryKey, NoArgs) EXCEPT
                              !.done = TRUE, !.ok = TRUE,
                              !.value = Obj(result), !.status = 200]>>
            /\ out' = Arr(extractList(result, queryKey))
    /\ pc' = "returned"
    /\ loc' = <<>>
    /\ UNCHANGED <<cfg, net, req>>

\* ---- sanitizeCard and tagUserText (security.ts) on their own ----

MaxSanitize == 2     \* how many times in a row a card is sanitized

\* a field that is not there
Absent == [absent |-> TRUE]

\* The texts a field may hold: without and with a directive pattern
Texts == { Title(n, d) : n \in {1}, d \in BOOLEAN }

\* Cards in the shape sanitizeCard knows: user-text fields, sub_cards and
\* conversations; a field may be absent or null.
SanitizeCards ==
    { Opt(Opt(Opt([id |-> 1, title |-> t],
                  "content", c, c # Absent),
              "sub_cards", <<[title |-> s, status |-> "done"]>>,
              s # Absent),
          "conversations", <<[messages |-> <<[content |-> m]>>]>>,
          m # Absent) :
        t \in Texts \cup {Null},
        c \in {Absent, Null, Title(2, FALSE)},
        s \in {Absent, Null, Title(3, TRUE)},
        m \in {Absent, Title(4, FALSE), Title(4, TRUE)} }

\* sanitizeCard(card)
ClientSanitize ==
    /\ pc = "idle"
    /\ \E card \in SanitizeCards :
         /\ Invoked("sanitizeCard", card)
         /\ loc' = <<sanitizeCard(card)>>
    /\ pc' = "sanitized"
    /\ UNCHANGED <<cfg, net, req, calls, out>>

\* sanitizeCard applied to what sanitizeCard returned
ClientSanitizeAgain ==
    /\ pc = "sanitized"
    /\ Len(loc) < MaxSanitize
    /\ loc' = Append(loc, sanitizeCard(loc[Len(loc)]))
    /\ UNCHANGED <<cfg, net, req, inv, pc, calls, out>>

\* tagUserText(text)
ClientTag ==
    /\ pc = "idle"
    /\ \E text \in Texts \cup {Null} :
         /\ Invoked("tagUserText", [text |-> text])
         /\ out' = [t |-> "text", v |-> tagUserText(text)]
    /\ pc' = "returned"
    /\ loc' = <<>>
    /\ calls' = <<>>
    /\ UNCHANGED <<cfg, net, req>>

\* ---- get_card / CodecksClient.getCard ----

\* The card the cards query of getCard asks for: title, content, the
\* childCards with their titles, the resolvables with their entries.
DetailCards ==
    { Opt(Opt(Opt([id |-> 1, title |-> t, status |-> "started"],
                  "content", c, c # Absent),
              "childCards", <<[title |-> s, status |-> "done"]>>,
              s # Absent),
          "resolvables",
          <<[isClosed |-> FALSE, entries |-> <<[content |-> m]>>]>>,
          m # Absent) :
        t \in Texts,
        c \in {Absent, Title(2, TRUE)},
        s \in {Absent, Title(3, FALSE), Title(3, TRUE)},
        m \in {Absent, Title(4, TRUE)} }

CardNotFound(cardId) == CliError(<<"[ERROR] Card not found", cardId>>)

\* A second card of the answer, behind the one asked for
OtherCard == [id |-> 2, title |-> Title(5, FALSE), status |-> "done"]

lastCard(cards) == cards[Len(cards)]

\* return cards[0]
firstCard(cards) == cards[1]

\* The get_card handler: validateUuid, getCard (the upstream answers with
\* the card or with none), then finalizeToolResult(sanitizeCard(result)).
ClientGetCard ==
    /\ pc = "idle"
    /\ \E cardId \in CardIdArgs,
          cards \in {<<>>} \cup { <<c>> : c \in DetailCards }
                       \cup { <<c, OtherCard>> : c \in DetailCards } :
         LET result == [NoBody EXCEPT !.card = cards]
             q == [cardId |-> cardId, visibility |-> "default"]
         IN /\ Invoked("get_card", [card_id |-> cardId])
            /\ IF ~validateUuid(cardId)
               THEN Thrown(UuidError(cardId, "card_id")) /\ calls' = <<>>
               ELSE /\ calls' = <<[Call("query", "cards", q) EXCEPT
                                      !.done = TRUE, !.ok = TRUE,
                                      !.value = Obj(result), !.status = 200]>>
                    /\ IF extractCards(result) = <<>>
                       THEN Thrown(CardNotFound(cardId))
                       ELSE Returned(Obj(sanitizeCard(
                                firstCard(extractCards(result)))))
    /\ loc' = <<>>
    /\ UNCHANGED <<cfg, net>>

\* ---- CodecksClient.updateCards on an upstream that accepts every update ----

\* The options of updateCards next to cardIds: every field is absent or
\* supplied; the clearable ones may be supplied as the string "null".
UpdateOptions ==
    { Opt(Opt(Opt(Opt(Opt(Opt(Opt(Opt([continueOnError |-> FALSE],
          "status", st, st # "absent"),
          "priority", pr, pr # "absent"),
          "effort", ef, ef # "absent"),
          "milestone", ms, ms # "absent"),
          "owner", ow, ow # "absent"),
          "deck", dk, dk # "absent"),
          "content", "body", ct),
          "title", Text("t", 4, 0), ti) :
        st \in {"absent", "done"},
        pr \in {"absent", "null", "a"},
        ef \in {"absent", "null", "5"},
        ms \in {"absent", "null", "m1"},
        ow \in {"absent", "null", "u1"},
        dk \in {"absent", "Features"},
        ct \in BOOLEAN,
        ti \in BOOLEAN }

\* updateCards(options): one cards/update dispatch per card id, each answered
\* with an empty object
ClientUpdateCards ==
    /\ pc = "idle"
    /\ \E n \in 1 .. MaxIds, options \in UpdateOptions :
         LET ids == [i \in 1 .. n |-> GoodId(i)]
             args == With(options, "cardIds", ids)
         IN /\ Invoked("updateCards", args)
            /\ calls' = [i \in 1 .. n |->
                            [Call("dispatch", "cards/update",
                                  updatePayload(ids[i], args)) EXCEPT
                                !.done = TRUE, !.ok = TRUE,
                                !.value = Obj(NoBody), !.status = 200]]
            /\ out' = Obj([ok |-> TRUE, updated |-> n,
                           results |-> [i \in 1 .. n |->
                               [card_id |-> ids[i], ok |-> TRUE,
                                result |-> NoBody]]])
    /\ pc' = "returned"
    /\ loc' = <<>>
    /\ UNCHANGED <<cfg, net, req>>

\* ---- validateInput, validateUuidList (security.ts) on their own ----

MaxCtrl == 2         \* most control characters in one text

\* The fields validateInput is asked about; "other" has no configured limit
ValidatedFields == {"title", "message", "feedback_message", "other"}

\* validateInput(text, field) for texts around the limit of the field
ClientValidateInput ==
    /\ pc = "idle"
    /\ \E field \in ValidatedFields, over \in -1 .. MaxCtrl + 1,
          ctrl \in 0 .. MaxCtrl :
         LET text == Text("t", limitOf(field) + over, ctrl)
         IN /\ Invoked("validateInput", [text |-> text, field |-> field])
            /\ out' = [t |-> "validated", v |-> validateInput(text, field)]
    /\ pc' = "returned"
    /\ loc' = <<>>
    /\ calls' = <<>>
    /\ UNCHANGED <<cfg, net, req>>

\* Identifiers by length and number of hyphens, around the accepted shape
UuidShapes == { [len |-> l, hyphens |-> h] : l \in {35, 36, 37}, h \in {3, 4, 5} }

\* validateUuidList(values): entry i carries the name i
ClientValidateUuidList ==
    /\ pc = "idle"
    /\ \E n \in 0 .. MaxIds :
         \E f \in [1 .. n -> UuidShapes] :
           LET values == [i \in 1 .. n |-> Uuid(i, f[i].len, f[i].hyphens)]
           IN /\ Invoked("validateUuidList", [values |-> values])
              /\ out' = [t |-> "validated",
                         v |-> validateUuidList(values, "card_ids")]
    /\ pc' = "returned"
    /\ loc' = <<>>
    /\ calls' = <<>>
    /\ UNCHANGED <<cfg, net, req>>

\* ---- CodecksClient.pmFocus ----

\* The cards the account may hold when pmFocus lists them
FocusPool ==
    { ListedCard(1, "blocked", "", 1, 1, "a", 5, "a"),
      ListedCard(2, "blocked", "", 9, 1, "a", 5, "a"),
      ListedCard(3, "in_review", "", 1, 1, "a", 5, "a"),
      ListedCard(4, "not_started", "", 5, 1, "a", 5, "a"),
      ListedCard(5, "started", "", 1, 1, "a", 5, "a"),
      ListedCard(6, "done", "", 1, 1, "a", 5, "a") }

FocusBoards ==
    UNION { { b \in [1 .. n -> FocusPool] :
                \A i, j \in 1 .. n : i # j => b[i] # b[j] } :
            n \in 0 .. MaxListed + 1 }

\* status: "not_started,started,blocked,in_review"
FocusStatuses == <<"not_started", "started", "blocked", "in_review">>

isStaleAlsoBlocked(c, cutoff) == c.lastUpdatedAt < cutoff

\* updated && updated < cutoff && c.status !== "blocked"
isStale(c, cutoff) == c.lastUpdatedAt < cutoff /\ c.status # "blocked"

\* pmFocus after listCards: the four capped lists and the counts
pmFocusResult(cards, limit, staleDays) ==
    LET blocked == slice(SelectSeq(cards, LAMBDA c : c.status = "blocked"),
                         0, limit)
        inReview == slice(SelectSeq(cards, LAMBDA c : c.status = "in_review"),
                          0, limit)
        stale == slice(SelectSeq(cards,
                           LAMBDA c : isStale(c, Today - staleDays)),
                       0, limit)
    IN [counts |-> [total |-> Len(cards), blocked |-> Len(blocked),
                    in_review |-> Len(inReview), stale |-> Len(stale)],
        blocked |-> blocked,
        in_review |-> inReview,
        stale |-> stale,
        suggested |-> slice(SelectSeq(cards,
                                LAMBDA c : c.status = "not_started"),
                            0, limit)]

\* pmFocus({limit, staleDays}): listCards with the four active statuses on
\* an upstream that answers with the cards of the account, then the lists
ClientPmFocus ==
    /\ pc = "idle"
    /\ \E board \in FocusBoards, limit \in 0 .. MaxListed,
          staleDays \in {4, 14} :
         LET options == [status |-> FocusStatuses, owner |-> "",
                         staleDays |-> 0, priority |-> "", updatedAfter |-> 0,
                         sort |-> ""]
             cq == [visibility |-> "default"]
             result == [NoBody EXCEPT !.card = Serve(cq, board)]
             all == listCardsResult(extractCards(result), options,
                                    FocusStatuses)
         IN /\ Invoked("pmFocus", [limit |-> limit, staleDays |-> staleDays])
            /\ calls' = <<[Call("query", "cards", cq) EXCEPT
                              !.done = TRUE, !.ok = TRUE,
                              !.value = Obj(result), !.status = 200]>>
            /\ out' = Obj(pmFocusResult(all.cards, limit, staleDays))
    /\ pc' = "returned"
    /\ loc' = <<>>
    /\ UNCHANGED <<cfg, net, req>>

NextClient ==
    \/ ClientListCardsQuery
    \/ ClientListCardsDone
    \/ ClientListEntities
    \/ ClientSanitize
    \/ ClientSanitizeAgain
    \/ ClientTag
    \/ ClientGetCard
    \/ ClientUpdateCards
    \/ ClientValidateInput
    \/ ClientValidateUuidList
    \/ ClientPmFocus

SpecClient == InitClient /\ [][NextClient]_vars

-----------------------------------------------------------------------------
(* Client properties (SpecClient) *)

\* listCards has returned
Listed == pc = "returned" /\ inv.tool = "listCards"

\* the cards the upstream answered with, in upstream order
Upstreamed == calls[1].value.v.card

Listing(statuses, s) == \E i \in 1 .. Len(statuses) : statuses[i] = s

\* s without the entries that fail keep, in the order of s
RECURSIVE Kept(_, _)
Kept(s, statuses) ==
    IF s = <<>> THEN <<>>
    ELSE LET rest == Kept(SubSeq(s, 1, Len(s) - 1), statuses)
             c == s[Len(s)]
         IN IF Listing(statuses, c.status) THEN Append(rest, c) ELSE rest

\* C13: with a status filter of several values listCards returns only cards
\* whose status is among them and count is the number of cards returned;
\* when nothing else narrows or sorts the list, the result is exactly the
\* upstream cards with a listed status, in upstream order.
C13_MultiStatusFilter ==
    (Listed /\ Len(inv.args.status) > 1) =>
        LET r == out.v
        IN /\ \A i \in 1 .. Len(r.cards) :
                 Listing(inv.args.status, r.cards[i].status)
           /\ r.count = Len(r.cards)
           /\ (inv.args.owner = "" /\ inv.args.staleDays = 0
               /\ inv.args.sort = "") =>
                 r.cards = Kept(Upstreamed, inv.args.status)

C13_Witness ==
    /\ Listed
    /\ Len(inv.args.status) > 1
    /\ inv.args.owner = "" /\ inv.args.staleDays = 0 /\ inv.args.sort = ""
    /\ Len(Upstreamed) = 2
    /\ Len(out.v.cards) = 1
    /\ out.v.cards[1] = Upstreamed[2]

\* card c passes the filters supplied in options o
SatisfiesStatus(c, o) == o.status = <<>> \/ Listing(o.status, c.status)
SatisfiesOwner(c, o) ==
    \/ o.owner = ""
    \/ o.owner = "none" /\ ~Has(c, "assignee")
    \/ o.owner # "none" /\ Has(c, "assignee")
       /\ toLowerCase(c.assignee.name) = toLowerCase(o.owner)
SatisfiesStale(c, o) ==
    o.staleDays = 0 \/ c.lastUpdatedAt < Today - o.staleDays
SatisfiesPriority(c, o) == o.priority = "" \/ c.priority = o.priority
SatisfiesUpdatedAfter(c, o) ==
    o.updatedAfter = 0 \/ c.lastUpdatedAt >= o.updatedAfter

\* C14: the filters of a card listing combine with AND: every returned card
\* satisfies every filter that was supplied (status, owner, stale days,
\* priority, updated-after), none of them is ignored.
C14_Original ==
    Listed =>
        \A i \in 1 .. Len(out.v.cards) :
            LET c == out.v.cards[i]
            IN /\ SatisfiesStatus(c, inv.args)
               /\ SatisfiesOwner(c, inv.args)
               /\ SatisfiesStale(c, inv.args)
               /\ SatisfiesPriority(c, inv.args)
               /\ SatisfiesUpdatedAfter(c, inv.args)

\* the entities the answered result holds under key
HeldUnder(key) ==
    LET result == calls[1].value.v
    IN IF Has(result, key) THEN result[key] ELSE <<>>

\* C15: extraction for a plural key returns the entities under the singular
\* key when there are any, otherwise the entities under the plural key, and
\* nothing only when neither key holds entities.
C15_Original ==
    (pc = "returned" /\ inv.tool = "extractList") =>
        LET one == HeldUnder(singularKey(inv.args.queryKey))
            many == HeldUnder(inv.args.queryKey)
        IN out.v = IF one # <<>> THEN one ELSE many

\* C16: tagging is applied exactly once per field: sanitizing an already
\* sanitized card does not wrap its texts a second time, and tagging null
\* yields null.
C16_Original ==
    /\ (pc = "sanitized" /\ Len(loc) >= 2) =>
           \A f \in USER_TEXT_FIELDS \cap DOMAIN inv.args :
               loc[2][f] = loc[1][f]
    /\ (pc = "returned" /\ inv.tool = "tagUserText"
        /\ inv.args.text = Null) => out.v = Null

\* get_card has returned the card the upstream answered with
GotCard ==
    /\ pc = "returned" /\ inv.tool = "get_card"
    /\ calls # <<>> /\ calls[1].value.v.card # <<>>

Tagged(v) == Has(v, "tag") /\ v.tag = "[USER_DATA]"

Directive(text) == plainText(text).directive

\* the warnings attached to a returned card, none when there is no list
WarningsOf(card) ==
    IF Has(card, "_safety_warnings") THEN card._safety_warnings ELSE {}

\* C17: in the result of get_card the title, the body, every child-card
\* title and every comment-thread entry body is wrapped in markers; every
\* injection finding is listed as "field: category" in the warnings, and the
\* warnings list is attached only when it is not empty.
C17_Original ==
    GotCard =>
        LET sent == calls[1].value.v.card[1]
            card == PayloadOf(out)
            children == IF Has(card, "childCards") THEN card.childCards
                        ELSE <<>>
            threads == IF Has(card, "resolvables") THEN card.resolvables
                       ELSE <<>>
        IN /\ Tagged(card.title)
           /\ Has(sent, "content") => Tagged(card.content)
           /\ Has(sent, "childCards") => Len(children) = Len(sent.childCards)
           /\ \A i \in 1 .. Len(children) : Tagged(children[i].title)
           /\ Has(sent, "resolvables") => Len(threads) = Len(sent.resolvables)
           /\ \A i \in 1 .. Len(threads) :
                 \A k \in 1 .. Len(threads[i].entries) :
                     Tagged(threads[i].entries[k].content)
           /\ Directive(sent.title) =>
                 <<"title", "override directive">> \in WarningsOf(card)
           /\ (Has(sent, "content") /\ Directive(sent.content)) =>
                 <<"content", "override directive">> \in WarningsOf(card)
           /\ (Has(sent, "childCards")
               /\ \E i \in 1 .. Len(sent.childCards) :
                     Directive(sent.childCards[i].title)) =>
                 <<"sub_card.title", "override directive">>
                     \in WarningsOf(card)
           /\ (Has(sent, "resolvables")
               /\ \E i \in 1 .. Len(sent.resolvables) :
                     \E k \in 1 .. Len(sent.resolvables[i].entries) :
                       Directive(sent.resolvables[i].entries[k].content)) =>
                 <<"conversation.message", "override directive">>
                     \in WarningsOf(card)
           /\ Has(card, "_safety_warnings") => card._safety_warnings # {}

\* the seconds a numeric Retry-After header asks for
SecondsOf(hdr) == IF hdr = "5" THEN 5 ELSE 0

\* how many waits precede position i of the request's events
WaitsBefore(r, i) ==
    Cardinality({ j \in 1 .. i - 1 : r.events[j].e = "sleep" })

\* C18: before each retry the transport waits the value of the Retry-After
\* header whenever the failed response carries one, whatever the value, and
\* otherwise baseDelay * 2^attemptIndex with attempts counted from 0.
C18_Original ==
    \A i \in 2 .. Len(req.events) :
        req.events[i].e = "sleep" =>
            LET o == req.events[i - 1].o
                d == req.events[i].d
            IN IF o.kind = "http" /\ o.hdr \in {"0", "5"}
               THEN d = SecondsOf(o.hdr)
               ELSE (o.kind # "http" \/ o.hdr = "absent") =>
                        d = cfg.httpRetryBase * Pow2(WaitsBefore(req, i))

\* C19: listCards with sort "updated" returns the cards by last-updated
\* timestamp, most recent first; with sort "created" by creation timestamp,
\* most recent first; with any other sort field in ascending order of that
\* field's value.
C19_Original ==
    Listed =>
        LET cards == out.v.cards
            sort == inv.args.sort
        IN \A i, j \in 1 .. Len(cards) :
             i < j =>
               /\ sort = "updated" =>
                     cards[i].lastUpdatedAt >= cards[j].lastUpdatedAt
               /\ sort = "created" =>
                     cards[i].createdAt >= cards[j].createdAt
               /\ sort = "effort" => cards[i].effort <= cards[j].effort
               /\ sort = "title" =>
                     ~(cards[i].title = "b" /\ cards[j].title = "a")

\* the fields a caller of updateCards may supply next to the card ids
UpdateFields ==
    {"status", "priority", "effort", "deck", "title", "content", "milestone",
     "hero", "owner", "tags", "doc"}

\* the key of the update payload that carries a field
PayloadKey(field) ==
    IF field = "milestone" THEN "milestoneId"
    ELSE IF field = "owner" THEN "assigneeId"
    ELSE field

\* C20: for each card of a batch update the dispatched payload holds the
\* card id plus exactly the fields the caller supplied: no absent field is
\* in it, every supplied field is, and a field supplied as the string
\* "null" is sent as null.
C20_Original ==
    (pc = "returned" /\ inv.tool = "updateCards") =>
        \A k \in 1 .. Len(calls) :
            LET p == calls[k].payload
                given == UpdateFields \cap DOMAIN inv.args
            IN /\ p.id = inv.args.cardIds[k]
               /\ DOMAIN p = {"id"} \cup { PayloadKey(f) : f \in given }
               /\ \A f \in given \cap {"priority", "effort", "milestone",
                                        "owner"} :
                     (inv.args[f] = "null" /\ Has(p, PayloadKey(f))) =>
                         p[PayloadKey(f)] = Null

\* C21: when the result of a read lacks the entity container (neither the
\* singular nor the plural key is there), the operation fails with an
\* error; it does not return an empty list.
C21_Original ==
    (pc = "returned" /\ inv.tool = "extractList"
     /\ ~Has(calls[1].value.v, singularKey(inv.args.queryKey))
     /\ ~Has(calls[1].value.v, inv.args.queryKey)) =>
        /\ out.t = "obj"
        /\ Has(out.v, "ok")
        /\ ~out.v.ok

\* get_card was called with a well-formed id and the upstream answered
AskedCard ==
    /\ pc = "returned" /\ inv.tool = "get_card"
    /\ calls # <<>>

\* C22: getCard never returns an empty success: when the query matches no
\* card the call fails with the not-found error, and otherwise the result
\* is the first matching card.
C22_GetCardFirstOrNotFound ==
    AskedCard =>
        LET cards == calls[1].value.v.card
        IN IF cards = <<>>
           THEN /\ FailureEnvelope(out, CardNotFound(inv.args.card_id))
                /\ out.v.error = ErrString(CardNotFound(inv.args.card_id))
           ELSE /\ out.t = "obj"
                /\ out.v.ok
                /\ PayloadOf(out).id = cards[1].id
                /\ PayloadOf(out).title.text = cards[1].title

C22_Witness ==
    /\ AskedCard
    /\ Len(calls[1].value.v.card) = 2
    /\ out.v.ok
    /\ PayloadOf(out).id = 1

\* C23: validateInput strips the control characters first and fails iff the
\* cleaned length exceeds the limit of the field, returning the cleaned text
\* otherwise: a title of 500 characters passes, one of 501 fails, and a text
\* over the limit only by its control characters passes.
C23_ValidateInputCleanedLength ==
    (pc = "returned" /\ inv.tool = "validateInput") =>
        LET text == inv.args.text
            limit == IF inv.args.field = "title" THEN 500
                     ELSE IF inv.args.field = "message" THEN 10000
                     ELSE IF inv.args.field = "feedback_message" THEN 1000
                     ELSE 50000
            r == out.v
        IN /\ r.ok <=> text.len - text.ctrl <= limit
           /\ r.ok => /\ r.value.len = text.len - text.ctrl
                      /\ r.value.ctrl = 0
                      /\ r.value.name = text.name
           /\ ~r.ok => r.err.cls = "CliError"

C23_Witness ==
    /\ pc = "returned" /\ inv.tool = "validateInput"
    /\ inv.args.field = "title"
    /\ inv.args.text.len = 501 /\ inv.args.text.ctrl = 1
    /\ out.v.ok
    /\ out.v.value.len = 500

\* the shape validateUuid accepts
WellFormed(id) == id.len = 36 /\ id.hyphens = 4

\* C24: validateUuid accepts an identifier iff it has 36 characters and
\* exactly 4 hyphens; validateUuidList checks the entries in order, fails on
\* the first invalid one, naming it, and returns the list unchanged when
\* every entry is valid.
C24_UuidListFirstInvalid ==
    (pc = "returned" /\ inv.tool = "validateUuidList") =>
        LET ids == inv.args.values
            r == out.v
        IN IF \A i \in 1 .. Len(ids) : WellFormed(ids[i])
           THEN r.ok /\ r.value = ids
           ELSE /\ ~r.ok
                /\ r.err.cls = "CliError"
                /\ \E k \in 1 .. Len(ids) :
                      /\ ~WellFormed(ids[k])
                      /\ \A j \in 1 .. k - 1 : WellFormed(ids[j])
                      /\ r.err.msg[3] = ids[k].name

C24_Witness ==
    /\ pc = "returned" /\ inv.tool = "validateUuidList"
    /\ Len(inv.args.values) = 3
    /\ WellFormed(inv.args.values[1])
    /\ inv.args.values[2].len = 36 /\ inv.args.values[2].hyphens = 5
    /\ ~WellFormed(inv.args.values[3])
    /\ ~out.v.ok
    /\ out.v.err.msg[3] = 2

\* s lists no entry twice
NoRepeat(s) == \A i, j \in 1 .. Len(s) : i # j => s[i] # s[j]

\* C25: no card appears twice in the queue: add_to_hand dispatches one
\* setCardOrders call whose ordered id sequence replaces the queue, so that
\* sequence is the caller's list and names no card twice; remove_from_hand
\* dispatches one removeCards call with exactly the caller's ids.
C25_Original ==
    /\ (Returning("add_to_hand") /\ calls # <<>>) =>
           /\ Len(calls) = 1
           /\ calls[1].path = "handQueue/setCardOrders"
           /\ calls[1].payload.cardIds = inv.args.card_ids
           /\ NoRepeat(calls[1].payload.cardIds)
    /\ (Returning("remove_from_hand") /\ calls # <<>>) =>
           /\ Len(calls) = 1
           /\ calls[1].path = "handQueue/removeCards"
           /\ calls[1].payload.cardIds = inv.args.card_ids

\* the cards one scaffold creates, in order: the parent (no lane), then the
\* lanes the options ask for
ScaffoldOrder(o) ==
    <<"", "Code", "Design">>
    \o (IF o.skip_art \/ o.art_deck = "" THEN <<>> ELSE <<"Art">>)
    \o (IF o.skip_audio \/ o.audio_deck = "" THEN <<>> ELSE <<"Audio">>)

\* the card creations of the call log, in the order they were issued
Creations == SelectSeq(calls, LAMBDA c : c.kind = "report")

\* creation k opens a scaffold: it is the first one, or the one before it
\* failed or was the last lane of its scaffold
RECURSIVE StepOf(_, _)
StepOf(cs, k) ==
    IF k = 1 THEN 1
    ELSE IF (cs[k - 1].done /\ ~cs[k - 1].ok)
            \/ StepOf(cs, k - 1) = Len(ScaffoldOrder(inv.args))
    THEN 1
    ELSE StepOf(cs, k - 1) + 1

SplitDone ==
    /\ Returning("split_features")
    /\ ~inv.args.dry_run
    /\ Len(calls) >= 2
    /\ calls[2].path = "cards" /\ calls[2].ok

\* C27: splitFeatures treats every card of the deck without children as a
\* feature and scaffolds each in order; a failed scaffold is recorded in the
\* details and does not abort the batch: details has one entry per feature,
\* in order, and features_processed + features_skipped is the number of
\* features found.
C27_SplitCollectsPerFeature ==
    SplitDone =>
        LET found == SelectSeq(calls[2].value.v.card,
                               LAMBDA c : c.childCardInfo # "some")
            p == PayloadOf(out)
            heroes == SelectSeq(Creations,
                                LAMBDA c : c.payload.content.lane = "")
        IN /\ out.v.ok
           /\ Len(p.details) = Len(found)
           /\ \A i \in 1 .. Len(found) : p.details[i].title = found[i].title
           /\ p.features_processed + p.features_skipped = Len(found)
           /\ p.features_processed =
                  Cardinality({ i \in 1 .. Len(p.details) : p.details[i].ok })
           /\ cfg.reportToken # "" =>
                  /\ Len(heroes) = Len(found)
                  /\ \A i \in 1 .. Len(found) :
                        heroes[i].payload.content.title = found[i].title

C27_Witness ==
    /\ SplitDone
    /\ Len(PayloadOf(out).details) = 2
    /\ ~PayloadOf(out).details[1].ok
    /\ PayloadOf(out).details[2].ok
    /\ PayloadOf(out).features_processed = 1
    /\ PayloadOf(out).features_skipped = 1

\* the first n entries of s
FirstN(s, n) == SubSeq(s, 1, IF n < Len(s) THEN n ELSE Len(s))

\* the cards of s that belong to a category (a status, or "stale": last
\* updated before day 10 - staleDays and not blocked), in the order of s
RECURSIVE Only(_, _)
Only(s, category) ==
    IF s = <<>> THEN <<>>
    ELSE LET rest == Only(SubSeq(s, 1, Len(s) - 1), category)
             c == s[Len(s)]
             in == IF category = "stale"
                   THEN c.lastUpdatedAt < 10 - inv.args.staleDays
                        /\ c.status # "blocked"
                   ELSE c.status = category
         IN IF in THEN Append(rest, c) ELSE rest

ProtocolFailure(o) ==
    o.kind = "http" /\ o.status = 200
    /\ (o.size = "large" \/ o.parse = "invalid")

\* C29: a protocol failure on a 2xx response ends the request at once and is
\* never retried, even for an idempotent call with retries remaining: no
\* sleep and no further attempt follows it; a body over the size ceiling is
\* rejected as too large whatever it holds (it is not parsed), a body within
\* the ceiling that is no JSON is rejected as not valid JSON, and the error
\* raised is a CliError that is no HTTPError.
C29_ProtocolFailureEndsRequest ==
    \A i \in 1 .. Len(req.events) :
        (req.events[i].e = "fetch" /\ ProtocolFailure(req.events[i].o)) =>
            /\ i = Len(req.events)
            /\ req.phase = "done"
            /\ ~ENABLED HttpFetch /\ ~ENABLED HttpSleep
            /\ ~req.result.ok
            /\ InstanceOfCliError(req.result.err)
            /\ ~InstanceOfHTTPError(req.result.err)
            /\ req.result.err =
                 IF req.events[i].o.size = "large"
                 THEN CliError("Response too large")
                 ELSE CliError("not valid JSON")

C29_Witness ==
    LET f == FetchEvents(req)
    IN  /\ req.idempotent /\ cfg.httpMaxRetries = 2
        /\ Len(f) = 2
        /\ f[1].o.kind = "http" /\ f[1].o.status = 503
        /\ f[2].o.kind = "http" /\ f[2].o.status = 200
        /\ f[2].o.size = "large" /\ f[2].o.parse = "obj"
        /\ req.result = Fail(CliError("Response too large"))

\* the mutation tools that validate free text
TextTools ==
    {"create_card", "update_cards", "scaffold_feature", "create_comment",
     "reply_comment"}

\* the free texts of one upstream payload of the tool being served, each
\* with the argument it was taken from and the field it was validated as
TextsSent(c) ==
    IF inv.tool = "update_cards"
    THEN IF Has(c.payload, "title")
         THEN { <<c.payload.title, inv.args.title, "title">> }
         ELSE {}
    ELSE IF inv.tool = "create_card"
    THEN { <<c.payload.content.title, inv.args.title, "title">> }
         \cup (IF inv.args.content # NoText
               THEN { <<c.payload.content.content, inv.args.content,
                        "content">> }
               ELSE {})
    ELSE IF inv.tool = "scaffold_feature"
    THEN { <<c.payload.content.title, inv.args.title, "title">> }
         \cup (IF inv.args.description # NoText
                  /\ c.payload.content.lane = ""
               THEN { <<c.payload.content.content, inv.args.description,
                        "description">> }
               ELSE {})
    ELSE { <<c.payload.content, inv.args.message, "message">> }

\* every text the tool has sent upstream is the cleaned text that
\* validateInput returned for its argument, and holds no control character
CleanTextsSent(tool) ==
    inv.tool = tool =>
        \A k \in 1 .. Len(calls) :
            \A s \in TextsSent(calls[k]) :
                /\ s[1].ctrl = 0
                /\ validateInput(s[2], s[3]) = Ok(s[1])

\* C30 as stated: for every mutation tool that validates free text
\* (create_card, update_cards, scaffold_feature, create_comment,
\* reply_comment) the text sent upstream is the cleaned text returned by
\* validation: no control character stripped by validateInput reaches an
\* upstream payload.
C30_Original == \A tool \in TextTools : CleanTextsSent(tool)

\* the same for the four tools that keep what validateInput returns
C30_CleanedExceptUpdate ==
    \A tool \in TextTools \ {"update_cards"} : CleanTextsSent(tool)

====
